---- MODULE Spec2Model ----
(***************************************************************************)
(* A model of the jdl-carrier rate service: route classification, bin      *)
(* packing, lead-time/date arithmetic, rate assembly and the POST /rates   *)
(* handler.                                                                *)
(*                                                                         *)
(* Strings that the code inspects character by character (country codes,  *)
(* postal codes, decimal renderings of numbers) are sequences of           *)
(* one-character strings; strings that the code only compares or uses as   *)
(* keys are TLA+ strings.  Weights are kept in grams, the unit of the      *)
(* cart payload; every comparison of pounds in the code is restated on     *)
(* grams by multiplying both sides by the same positive factor.            *)
(***************************************************************************)
EXTENDS Integers, Sequences, FiniteSets, TLC

VARIABLES
  pc,            \* position of the operation under way
  request,       \* the ShopifyRateRequest (destination, items) / the inputs
  config,        \* the KVConfig in use (zips, boxes, fees, lead times)
  route,         \* the RouteDecision, or NoRoute before it is taken
  packableItems, \* packItems: the sorted entries not yet placed
  packedBoxes,   \* packItems: the boxes opened so far
  output,        \* the value returned by the operation under way
  events,        \* the effects performed so far, in order
  clock,         \* the current time in seconds since the epoch (Date.now())
  tokenCache,    \* services/fedex.ts: the process-wide cached OAuth token
  parsedRates    \* handleRateRequest: the parsed carrier rates

vars == <<pc, request, config, route, packableItems, packedBoxes, output, events, clock, tokenCache, parsedRates>>

(***************************************************************************)
(* Bounds of the model.                                                    *)
(***************************************************************************)
MaxPostalLen == 7   \* longest postal code string drawn
MaxCartLen == 2     \* most line items in a drawn cart

Min(a, b) == IF a <= b THEN a ELSE b
Max(a, b) == IF a >= b THEN a ELSE b

Null == "null"      \* undefined / null / absent property

(***************************************************************************)
(* Character strings.                                                      *)
(***************************************************************************)
LowerCase == <<"a","b","c","d","e","f","g","h","i","j","k","l","m",
               "n","o","p","q","r","s","t","u","v","w","x","y","z">>
UpperCase == <<"A","B","C","D","E","F","G","H","I","J","K","L","M",
               "N","O","P","Q","R","S","T","U","V","W","X","Y","Z">>

\* String.prototype.toUpperCase on one character
CharToUpperCase(ch) ==
  IF \E i \in 1..Len(LowerCase) : LowerCase[i] = ch
  THEN UpperCase[CHOOSE i \in 1..Len(LowerCase) : LowerCase[i] = ch]
  ELSE ch

toUpperCase(s) == [i \in 1..Len(s) |-> CharToUpperCase(s[i])]

WhiteSpace == {" ", "\t"}

RECURSIVE trimStart(_)
trimStart(s) ==
  IF s # <<>> /\ Head(s) \in WhiteSpace THEN trimStart(Tail(s)) ELSE s

RECURSIVE trimEnd(_)
trimEnd(s) ==
  IF s # <<>> /\ s[Len(s)] \in WhiteSpace
  THEN trimEnd(SubSeq(s, 1, Len(s) - 1))
  ELSE s

\* String.prototype.trim
trim(s) == trimEnd(trimStart(s))

\* String.prototype.substring(0, n)
substring0(s, n) == SubSeq(s, 1, Min(n, Len(s)))

(***************************************************************************)
(* services/routing.ts                                                     *)
(***************************************************************************)
RecognizedCustomerTypes == {"international_military", "freight_forwarding", "fedex_own_account"}

\* a value of item.properties._customer_type is truthy unless absent or ""
Truthy(v) == v # Null /\ v # ""

RECURSIVE extractCustomerTypeWrong(_)
extractCustomerTypeWrong(items) ==
  IF items = <<>> THEN "standard"
  ELSE LET customerTypeProperty == Head(items).customer_type
           later == extractCustomerTypeWrong(Tail(items))
       IN IF later # "standard" THEN later
          ELSE IF Truthy(customerTypeProperty) /\ customerTypeProperty \in RecognizedCustomerTypes
          THEN customerTypeProperty
          ELSE "standard"

RECURSIVE extractCustomerType(_)
extractCustomerType(items) ==
  IF items = <<>> THEN "standard"
  ELSE LET customerTypeProperty == Head(items).customer_type
       IN IF Truthy(customerTypeProperty) /\ customerTypeProperty \in RecognizedCustomerTypes
          THEN customerTypeProperty
          ELSE extractCustomerType(Tail(items))

ZipPrefixLen == 5

\* the normalization isLocalDeliveryZip applies: trim, then the first 5 characters
normalizeZip(postalCode) == substring0(trim(postalCode), ZipPrefixLen)

isLocalDeliveryZip(postalCode, localZipSet) == normalizeZip(postalCode) \in localZipSet

isDomesticDestination(countryCode) == toUpperCase(countryCode) = <<"U", "S">>

determineRouteWrong(req, localDeliveryZips) ==
  LET customerType == extractCustomerType(req.items)
      isDomestic == isDomesticDestination(req.country)
  IN IF isDomestic
     THEN [routeType |-> "domestic", customerType |-> customerType, isInternational |-> FALSE]
     ELSE IF customerType = "international_military"
     THEN [routeType |-> "international_military", customerType |-> customerType,
           isInternational |-> TRUE]
     ELSE [routeType |-> "freight_forwarding", customerType |-> customerType,
           isInternational |-> TRUE]

determineRoute(req, localDeliveryZips) ==
  LET customerType == extractCustomerType(req.items)
      isDomestic == isDomesticDestination(req.country)
  IN IF isDomestic /\ isLocalDeliveryZip(req.postal_code, localDeliveryZips)
     THEN [routeType |-> "local_delivery", customerType |-> customerType,
           isInternational |-> FALSE]
     ELSE IF isDomestic
     THEN [routeType |-> "domestic", customerType |-> customerType, isInternational |-> FALSE]
     ELSE IF customerType = "international_military"
     THEN [routeType |-> "international_military", customerType |-> customerType,
           isInternational |-> TRUE]
     ELSE [routeType |-> "freight_forwarding", customerType |-> customerType,
           isInternational |-> TRUE]

hasShippableItemsWrong(items) == items # <<>>

hasShippableItems(items) == \E i \in 1..Len(items) : items[i].requires_shipping

(***************************************************************************)
(* services/packaging.ts (the dimension-aware packer).                     *)
(*                                                                         *)
(* GRAMS_PER_LB = 453.592 = 56699 / 125, so a weight in pounds is carried  *)
(* as a whole number of units of 1/56699 lb: g grams are g * 125 units and *)
(* p pounds are p * 56699 units.  A capacity scaled by a fill percentage   *)
(* is kept times 100, and compared with 100 times the other side.          *)
(***************************************************************************)
GRAMS_PER_LB_NUM == 56699
GRAMS_PER_LB_DEN == 125
WEIGHT_FILL_PERCENTAGE == 90
AREA_FILL_PERCENTAGE == 85

\* a whole number of pounds (a box's maxWeightLbs, emptyWeightLbs), in units
Lbs(pounds) == pounds * GRAMS_PER_LB_NUM

\* grams / GRAMS_PER_LB, in units
gramsToLbs(grams) == grams * GRAMS_PER_LB_DEN

RECURSIVE calculateTotalCartWeightLbs(_)
calculateTotalCartWeightLbs(items) ==
  IF items = <<>> THEN 0
  ELSE gramsToLbs(Head(items).grams) * Head(items).quantity
         + calculateTotalCartWeightLbs(Tail(items))

\* null (here <<>>) unless the text starts with a number greater than 0
parseNumericProperty(value) ==
  IF value = <<>> THEN <<>>
  ELSE IF value[1] <= 0 THEN <<>> ELSE value

extractItemDimensions(item) ==
  LET length == parseNumericProperty(item.length)
      width == parseNumericProperty(item.width)
      height == parseNumericProperty(item.height)
  IN IF length # <<>> /\ width # <<>> /\ height # <<>>
     THEN [length |-> length[1], width |-> width[1], height |-> height[1],
           hasValidDimensions |-> TRUE]
     ELSE [length |-> 0, width |-> 0, height |-> 0, hasValidDimensions |-> FALSE]

\* 100 x the effective weight capacity, in units
getEffectiveWeightCapacity(box) ==
  (Lbs(box.maxWeightLbs) - Lbs(box.emptyWeightLbs)) * WEIGHT_FILL_PERCENTAGE

\* 100 x the effective floor area, in square inches
getEffectiveFloorArea(box) == box.length * box.width * AREA_FILL_PERCENTAGE

itemFitsInBox(item, box) ==
  IF item.weightLbs * 100 > getEffectiveWeightCapacity(box) THEN FALSE
  ELSE IF ~item.dimensions.hasValidDimensions THEN TRUE
  ELSE IF item.dimensions.height > box.height THEN FALSE
  ELSE IF item.floorArea * 100 > getEffectiveFloorArea(box) THEN FALSE
  ELSE TRUE

itemFitsInPackedBoxFullCapacity(item, packedBox) ==
  LET remainingWeight == getEffectiveWeightCapacity(packedBox.box)
      remainingArea ==
        getEffectiveFloorArea(packedBox.box) - packedBox.usedFloorArea * 100
  IN IF item.weightLbs * 100 > remainingWeight THEN FALSE
     ELSE IF ~item.dimensions.hasValidDimensions THEN TRUE
     ELSE IF item.dimensions.height > packedBox.box.height THEN FALSE
     ELSE IF item.floorArea * 100 > remainingArea THEN FALSE
     ELSE TRUE

itemFitsInPackedBoxWrong(item, packedBox) ==
  LET remainingWeight ==
        getEffectiveWeightCapacity(packedBox.box) - packedBox.itemWeightLbs * 100
      remainingArea == getEffectiveFloorArea(packedBox.box)
  IN IF item.weightLbs * 100 > remainingWeight THEN FALSE
     ELSE IF ~item.dimensions.hasValidDimensions THEN TRUE
     ELSE IF item.dimensions.height > packedBox.box.height THEN FALSE
     ELSE IF item.floorArea * 100 > remainingArea THEN FALSE
     ELSE TRUE

itemFitsInPackedBox(item, packedBox) ==
  LET remainingWeight ==
        getEffectiveWeightCapacity(packedBox.box) - packedBox.itemWeightLbs * 100
      remainingArea ==
        getEffectiveFloorArea(packedBox.box) - packedBox.usedFloorArea * 100
  IN IF item.weightLbs * 100 > remainingWeight THEN FALSE
     ELSE IF ~item.dimensions.hasValidDimensions THEN TRUE
     ELSE IF item.dimensions.height > packedBox.box.height THEN FALSE
     ELSE IF item.floorArea * 100 > remainingArea THEN FALSE
     ELSE TRUE

\* Array.prototype.sort: stable; precedes[i][j] is "the comparator is negative
\* on (seq[i], seq[j])"
SortStable(seq, precedes) ==
  LET n == Len(seq)
      rank(i) == Cardinality({j \in 1..n :
                    \/ precedes[j][i]
                    \/ (~precedes[i][j] /\ j < i)}) + 1
  IN [k \in 1..n |-> seq[CHOOSE i \in 1..n : rank(i) = k]]

BoxAreaAsc(a, b) == a.length * a.width < b.length * b.width
BoxMaxWeightAsc(a, b) == a.maxWeightLbs < b.maxWeightLbs

\* boxes sorted by floor area, smallest first
boxesByAreaAsc(boxConfigs) ==
  SortStable(boxConfigs,
             [i \in 1..Len(boxConfigs) |-> [j \in 1..Len(boxConfigs) |->
                BoxAreaAsc(boxConfigs[i], boxConfigs[j])]])

largestBoxWrong(boxConfigs) ==
  LET sorted == SortStable(boxConfigs,
                           [i \in 1..Len(boxConfigs) |-> [j \in 1..Len(boxConfigs) |->
                              BoxMaxWeightAsc(boxConfigs[i], boxConfigs[j])]])
  IN sorted[Len(sorted)]
largestBox(boxConfigs) ==
  LET sorted == boxesByAreaAsc(boxConfigs) IN sorted[Len(sorted)]

\* the unit entries of one line item: quantity copies
ExpandItem(item) ==
  LET dimensions == extractItemDimensions(item)
      floorArea == IF dimensions.hasValidDimensions
                   THEN dimensions.length * dimensions.width ELSE 0
  IN [i \in 1..item.quantity |->
        [weightLbs |-> gramsToLbs(item.grams), dimensions |-> dimensions,
         floorArea |-> floorArea]]

RECURSIVE ExpandItems(_)
ExpandItems(items) ==
  IF items = <<>> THEN <<>> ELSE ExpandItem(Head(items)) \o ExpandItems(Tail(items))

\* floor area descending, then weight descending
PackableDesc(a, b) ==
  IF b.floorArea # a.floorArea THEN b.floorArea < a.floorArea
  ELSE b.weightLbs < a.weightLbs

sortPackableItems(entries) ==
  SortStable(entries,
             [i \in 1..Len(entries) |-> [j \in 1..Len(entries) |->
                PackableDesc(entries[i], entries[j])]])

\* a box opened for its first entry.  contents is a history of the entries
\* placed in the box; the code keeps no such field and nothing below reads it.
NewPackedBox(boxToUse, item) ==
  [box |-> boxToUse,
   itemWeightLbs |-> item.weightLbs,
   totalWeightLbs |-> Lbs(boxToUse.emptyWeightLbs) + item.weightLbs,
   usedFloorArea |-> item.floorArea,
   contents |-> <<item>>]

AddToPackedBoxWrong(packedBox, item) ==
  [packedBox EXCEPT !.itemWeightLbs = @ + item.weightLbs,
                    !.totalWeightLbs =
                       @ + Lbs(packedBox.box.emptyWeightLbs) + item.weightLbs,
                    !.usedFloorArea = @ + item.floorArea,
                    !.contents = Append(@, item)]

AddToPackedBox(packedBox, item) ==
  [packedBox EXCEPT !.itemWeightLbs = @ + item.weightLbs,
                    !.totalWeightLbs = @ + item.weightLbs,
                    !.usedFloorArea = @ + item.floorArea,
                    !.contents = Append(@, item)]

chooseBoxWrong(item, boxConfigs) ==
  IF \E k \in 1..Len(boxConfigs) : itemFitsInBox(item, boxConfigs[k])
  THEN boxConfigs[CHOOSE k \in 1..Len(boxConfigs) :
                    /\ itemFitsInBox(item, boxConfigs[k])
                    /\ \A m \in 1..(k - 1) : ~itemFitsInBox(item, boxConfigs[m])]
  ELSE largestBox(boxConfigs)

\* the box type opened for an entry no open box accepts
chooseBox(item, boxConfigs) ==
  LET sorted == boxesByAreaAsc(boxConfigs)
  IN IF \E k \in 1..Len(sorted) : itemFitsInBox(item, sorted[k])
     THEN sorted[CHOOSE k \in 1..Len(sorted) :
                   /\ itemFitsInBox(item, sorted[k])
                   /\ \A m \in 1..(k - 1) : ~itemFitsInBox(item, sorted[m])]
     ELSE largestBox(boxConfigs)

\* one iteration of the placement loop
placeItemAlwaysNew(boxes, item, boxConfigs) ==
  Append(boxes, NewPackedBox(chooseBox(item, boxConfigs), item))

placeItemWrong(boxes, item, boxConfigs) ==
  IF \E i \in 1..Len(boxes) : itemFitsInPackedBox(item, boxes[i])
  THEN LET i == CHOOSE i \in 1..Len(boxes) :
                  /\ itemFitsInPackedBox(item, boxes[i])
                  /\ \A j \in 1..(i - 1) : ~itemFitsInPackedBox(item, boxes[j])
       IN [boxes EXCEPT ![i] = [@ EXCEPT !.totalWeightLbs = @ + item.weightLbs,
                                         !.usedFloorArea = @ + item.floorArea,
                                         !.contents = Append(@, item)]]
  ELSE Append(boxes, NewPackedBox(chooseBox(item, boxConfigs), item))

placeItem(boxes, item, boxConfigs) ==
  IF \E i \in 1..Len(boxes) : itemFitsInPackedBox(item, boxes[i])
  THEN LET i == CHOOSE i \in 1..Len(boxes) :
                  /\ itemFitsInPackedBox(item, boxes[i])
                  /\ \A j \in 1..(i - 1) : ~itemFitsInPackedBox(item, boxes[j])
       IN [boxes EXCEPT ![i] = AddToPackedBox(@, item)]
  ELSE Append(boxes, NewPackedBox(chooseBox(item, boxConfigs), item))

RECURSIVE placeAll(_, _, _)
placeAll(boxes, entries, boxConfigs) ==
  IF entries = <<>> THEN boxes
  ELSE placeAll(placeItem(boxes, Head(entries), boxConfigs), Tail(entries), boxConfigs)

NoBoxConfigurations == "No box configurations available"

Returned(value) == [threw |-> Null, value |-> value]
Thrown(message) == [threw |-> message, value |-> <<>>]

packItemsEntryWrong(items, boxConfigs) ==
  IF boxConfigs = <<>> THEN "throw"
  ELSE IF items = <<>> THEN "return" ELSE "pack"

\* the two early exits of packItems: return [] for no items, else throw for
\* no box configurations, else go on to pack
packItemsEntry(items, boxConfigs) ==
  IF items = <<>> THEN "return"
  ELSE IF boxConfigs = <<>> THEN "throw" ELSE "pack"

packItems(items, boxConfigs) ==
  CASE packItemsEntry(items, boxConfigs) = "return" -> Returned(<<>>)
    [] packItemsEntry(items, boxConfigs) = "throw" -> Thrown(NoBoxConfigurations)
    [] OTHER -> Returned(placeAll(<<>>, sortPackableItems(ExpandItems(items)), boxConfigs))

\* Math.round(totalWeightLbs * 100) / 100, kept in hundredths of a pound
RoundedWeight(totalWeightLbs) ==
  (totalWeightLbs * 200 + GRAMS_PER_LB_NUM) \div (2 * GRAMS_PER_LB_NUM)

packedBoxesToFedExPackages(boxes) ==
  [i \in 1..Len(boxes) |->
     [weight |-> RoundedWeight(boxes[i].totalWeightLbs),
      length |-> boxes[i].box.length, width |-> boxes[i].box.width,
      height |-> boxes[i].box.height, groupPackageCount |-> 1]]

IsShippable(item) == item.requires_shipping

getPackagesForCart(items, boxConfigs) ==
  LET shippableItems == SelectSeq(items, IsShippable)
  IN IF shippableItems = <<>> THEN Returned(<<>>)
     ELSE LET packed == packItems(shippableItems, boxConfigs)
          IN IF packed.threw # Null THEN packed
             ELSE Returned(packedBoxesToFedExPackages(packed.value))

(***************************************************************************)
(* Box catalogs.                                                           *)
(***************************************************************************)
Box(name, l, w, h, maxWeightLbs, emptyWeightLbs) ==
  [name |-> name, length |-> l, width |-> w, height |-> h,
   maxWeightLbs |-> maxWeightLbs, emptyWeightLbs |-> emptyWeightLbs]

\* the catalog of services/packaging.test.ts
TEST_BOX_CONFIGS ==
  <<Box("small", 12, 12, 8, 20, 1), Box("medium", 18, 12, 10, 40, 2),
    Box("large", 24, 18, 12, 70, 3)>>

\* the catalog of config/constants.ts
DEFAULT_BOX_CONFIGS ==
  <<Box("2-gallon", 18, 12, 10, 30, 2), Box("4-gallon", 18, 18, 10, 55, 3),
    Box("6-gallon", 24, 18, 10, 80, 4)>>

(***************************************************************************)
(* services/leadtimes.ts.  A Date is its time in whole seconds since the   *)
(* epoch; the calendar date that formatDateISO prints is identified with   *)
(* the UTC day number.                                                     *)
(***************************************************************************)
SecondsPerDay == 86400

\* Date.prototype.getUTCDay: 0 is Sunday; 1 January 1970 was a Thursday
getUTCDay(date) == ((date \div SecondsPerDay) + 4) % 7

\* a lead-time table maps keys (SKUs and "default") to days
DEFAULT_LEAD_TIMES == [k \in {"default"} |-> 1]

RECURSIVE maxLeadTimeLoop(_, _, _, _)
maxLeadTimeLoop(items, leadTimes, defaultLeadTime, maxLeadTime) ==
  IF items = <<>> THEN maxLeadTime
  ELSE LET itemLeadTime == IF Head(items).sku \in DOMAIN leadTimes
                           THEN leadTimes[Head(items).sku]
                           ELSE defaultLeadTime
       IN maxLeadTimeLoop(Tail(items), leadTimes, defaultLeadTime,
                          IF itemLeadTime > maxLeadTime THEN itemLeadTime ELSE maxLeadTime)

getMaxLeadTimeDaysWrong(items, leadTimes) ==
  LET defaultLeadTime == IF "default" \in DOMAIN leadTimes THEN leadTimes["default"] ELSE 1
  IN IF items = <<>> THEN defaultLeadTime
     ELSE maxLeadTimeLoop(items, leadTimes, defaultLeadTime, 0)

getMaxLeadTimeDays(items, leadTimes) ==
  LET defaultLeadTime == IF "default" \in DOMAIN leadTimes THEN leadTimes["default"] ELSE 1
  IN IF items = <<>> THEN defaultLeadTime
     ELSE LET maxLeadTime == maxLeadTimeLoop(items, leadTimes, defaultLeadTime, 0)
          IN IF maxLeadTime # 0 THEN maxLeadTime ELSE defaultLeadTime

getPriorityLeadTimeDaysWrong(standardLeadTime) == Max(0, standardLeadTime - 2)

getPriorityLeadTimeDays(standardLeadTime) == Max(1, standardLeadTime - 2)

isWeekend(date) == getUTCDay(date) = 0 \/ getUTCDay(date) = 6

RECURSIVE addBusinessDaysLoop(_, _, _)
addBusinessDaysLoop(result, daysAdded, businessDays) ==
  IF daysAdded < businessDays
  THEN LET next == result + SecondsPerDay
       IN addBusinessDaysLoop(next, IF isWeekend(next) THEN daysAdded ELSE daysAdded + 1,
                              businessDays)
  ELSE result

addBusinessDaysWrong(startDate, businessDays) ==
  LET monday == IF getUTCDay(startDate) = 6 THEN startDate + 2 * SecondsPerDay
                ELSE IF getUTCDay(startDate) = 0 THEN startDate + SecondsPerDay
                ELSE startDate
  IN addBusinessDaysLoop(monday, 0, businessDays)

addBusinessDays(startDate, businessDays) == addBusinessDaysLoop(startDate, 0, businessDays)

RECURSIVE skipWeekend(_)
skipWeekend(result) == IF isWeekend(result) THEN skipWeekend(result + SecondsPerDay) ELSE result

getNextBusinessDayWrong(date) == skipWeekend(date)

getNextBusinessDay(date) == skipWeekend(date + SecondsPerDay)

calculateShipDateWrong(leadTimeDays, fromDate) ==
  IF leadTimeDays <= 0 THEN fromDate
  ELSE addBusinessDays(fromDate, leadTimeDays)

calculateShipDate(leadTimeDays, fromDate) ==
  IF leadTimeDays <= 0 THEN getNextBusinessDay(fromDate)
  ELSE addBusinessDays(fromDate, leadTimeDays)

calculateDeliveryDate(shipDate, transitDays) ==
  IF transitDays <= 0 THEN shipDate ELSE addBusinessDays(shipDate, transitDays)

\* toISOString().split('T')[0]: the UTC calendar date, as a day number
formatDateISO(date) == date \div SecondsPerDay

calculateDeliveryDates(items, transitDays, leadTimes, isPriority, fromDate) ==
  LET standardLeadTime == getMaxLeadTimeDays(items, leadTimes)
      leadTimeDays == IF isPriority THEN getPriorityLeadTimeDays(standardLeadTime)
                      ELSE standardLeadTime
      shipDate == calculateShipDate(leadTimeDays, fromDate)
      deliveryDate == calculateDeliveryDate(shipDate, transitDays)
  IN [shipDate |-> shipDate, deliveryDate |-> deliveryDate,
      minDeliveryDateISO |-> formatDateISO(deliveryDate),
      maxDeliveryDateISO |-> formatDateISO(deliveryDate)]

(***************************************************************************)
(* services/fedex.ts and config/constants.ts.                              *)
(***************************************************************************)
DOMESTIC_GROUND_SERVICES == {"FEDEX_GROUND", "GROUND_HOME_DELIVERY"}
DOMESTIC_AIR_SERVICES ==
  {"FEDEX_2_DAY", "FEDEX_2_DAY_AM", "FEDEX_EXPRESS_SAVER", "STANDARD_OVERNIGHT",
   "PRIORITY_OVERNIGHT", "FIRST_OVERNIGHT"}
INTERNATIONAL_SERVICES ==
  {"INTERNATIONAL_PRIORITY", "INTERNATIONAL_ECONOMY", "INTERNATIONAL_FIRST"}
ALL_ALLOWED_SERVICES ==
  DOMESTIC_GROUND_SERVICES \cup DOMESTIC_AIR_SERVICES \cup INTERNATIONAL_SERVICES
GROUND_SERVICE_SET == DOMESTIC_GROUND_SERVICES

SERVICE_DISPLAY_NAMES ==
  [t \in ALL_ALLOWED_SERVICES |->
     CASE t = "FEDEX_GROUND" -> "FedEx Ground"
       [] t = "GROUND_HOME_DELIVERY" -> "FedEx Home Delivery"
       [] t = "FEDEX_2_DAY" -> "FedEx 2Day"
       [] t = "FEDEX_2_DAY_AM" -> "FedEx 2Day AM"
       [] t = "FEDEX_EXPRESS_SAVER" -> "FedEx Express Saver"
       [] t = "STANDARD_OVERNIGHT" -> "FedEx Standard Overnight"
       [] t = "PRIORITY_OVERNIGHT" -> "FedEx Priority Overnight"
       [] t = "FIRST_OVERNIGHT" -> "FedEx First Overnight"
       [] t = "INTERNATIONAL_PRIORITY" -> "FedEx International Priority"
       [] t = "INTERNATIONAL_ECONOMY" -> "FedEx International Economy"
       [] t = "INTERNATIONAL_FIRST" -> "FedEx International First"]

FEDEX_TOKEN_EXPIRY_BUFFER_SECONDS == 60

isGroundService(serviceType) == serviceType \in GROUND_SERVICE_SET

Digits == <<"0", "1", "2", "3", "4", "5", "6", "7", "8", "9">>
IsDigit(ch) == \E d \in 1..10 : Digits[d] = ch
DigitValue(ch) == (CHOOSE d \in 1..10 : Digits[d] = ch) - 1

RECURSIVE parseInt(_)
\* parseInt(text, 10) of a run of digits
parseInt(digits) ==
  IF digits = <<>> THEN 0
  ELSE parseInt(SubSeq(digits, 1, Len(digits) - 1)) * 10 + DigitValue(digits[Len(digits)])

\* the match of /(\d+)/: the first maximal run of digits, <<>> if there is none
firstDigitRun(text) ==
  IF \E i \in 1..Len(text) : IsDigit(text[i])
  THEN LET from == CHOOSE i \in 1..Len(text) :
                     IsDigit(text[i]) /\ \A j \in 1..(i - 1) : ~IsDigit(text[j])
           to == CHOOSE i \in from..Len(text) :
                   /\ \A j \in from..i : IsDigit(text[j])
                   /\ (i = Len(text) \/ ~IsDigit(text[i + 1]))
       IN SubSeq(text, from, to)
  ELSE <<>>

\* String.prototype.includes
includes(text, word) ==
  \E i \in 1..(Len(text) - Len(word) + 1) : SubSeq(text, i, i + Len(word) - 1) = word

\* Object.entries(TRANSIT_TIME_WORDS), in insertion order
TRANSIT_TIME_WORDS ==
  << <<"O","N","E">>, <<"T","W","O">>, <<"T","H","R","E","E">>, <<"F","O","U","R">>,
     <<"F","I","V","E">>, <<"S","I","X">>, <<"S","E","V","E","N">>,
     <<"E","I","G","H","T">>, <<"N","I","N","E">>, <<"T","E","N">> >>

parseTransitTime(transitTime) ==
  LET digitMatch == firstDigitRun(transitTime)
      upperTime == toUpperCase(transitTime)
  IN IF digitMatch # <<>> THEN parseInt(digitMatch)
     ELSE IF \E d \in 1..Len(TRANSIT_TIME_WORDS) : includes(upperTime, TRANSIT_TIME_WORDS[d])
     THEN CHOOSE d \in 1..Len(TRANSIT_TIME_WORDS) :
            /\ includes(upperTime, TRANSIT_TIME_WORDS[d])
            /\ \A e \in 1..(d - 1) : ~includes(upperTime, TRANSIT_TIME_WORDS[e])
     ELSE 1

ACCOUNT_RATE_TYPES == {"PAYOR_ACCOUNT_PACKAGE", "PAYOR_ACCOUNT_SHIPMENT"}
LIST_RATE_TYPES == {"PAYOR_LIST_PACKAGE", "PAYOR_LIST_SHIPMENT"}

\* Array.prototype.find over the rate types of a set: <<>> or <<the first match>>
findRate(ratedDetails, rateTypes) ==
  IF \E i \in 1..Len(ratedDetails) : ratedDetails[i].rateType \in rateTypes
  THEN <<ratedDetails[CHOOSE i \in 1..Len(ratedDetails) :
                        /\ ratedDetails[i].rateType \in rateTypes
                        /\ \A j \in 1..(i - 1) : ratedDetails[j].rateType \notin rateTypes]>>
  ELSE <<>>

selectRateWrong(ratedDetails) ==
  LET accountRate == findRate(ratedDetails, ACCOUNT_RATE_TYPES)
      listRate == findRate(ratedDetails, LIST_RATE_TYPES)
  IN IF listRate # <<>> THEN listRate ELSE accountRate

\* accountRate || listRate
selectRate(ratedDetails) ==
  LET accountRate == findRate(ratedDetails, ACCOUNT_RATE_TYPES)
      listRate == findRate(ratedDetails, LIST_RATE_TYPES)
  IN IF accountRate # <<>> THEN accountRate ELSE listRate

totalChargeOfWrong(selectedRate) ==
  IF selectedRate.totalNetCharge # <<>> THEN <<selectedRate.totalNetCharge[1]>> ELSE <<>>

\* selectedRate.totalNetCharge?.[0] || selectedRate.totalNetFedExCharge?.[0]
totalChargeOf(selectedRate) ==
  IF selectedRate.totalNetCharge # <<>> THEN <<selectedRate.totalNetCharge[1]>>
  ELSE IF selectedRate.totalNetFedExCharge # <<>>
  THEN <<selectedRate.totalNetFedExCharge[1]>>
  ELSE <<>>

\* One reply detail: <<>> when it is skipped, else <<the parsed rate>>.  Money
\* lists hold amounts in cents (Math.round(amount * 100)); an absent or empty
\* text field is <<>> or "".
parseDetail(detail) ==
  IF detail.serviceType \notin ALL_ALLOWED_SERVICES THEN <<>>
  ELSE
    LET selectedRate == selectRate(detail.ratedShipmentDetails)
    IN IF selectedRate = <<>> THEN <<>>
       ELSE
         LET totalCharge == totalChargeOf(selectedRate[1])
         IN IF totalCharge = <<>> THEN <<>>
            ELSE
              << [serviceType |-> detail.serviceType,
                  serviceName |-> SERVICE_DISPLAY_NAMES[detail.serviceType],
                  totalChargeCents |-> totalCharge[1],
                  transitDays |->
                    IF detail.commitTransitTime # <<>>
                    THEN parseTransitTime(detail.commitTransitTime)
                    ELSE IF detail.commitMinimumTransitTime # <<>>
                    THEN parseTransitTime(detail.commitMinimumTransitTime)
                    ELSE IF detail.operationalTransitTime # <<>>
                    THEN parseTransitTime(detail.operationalTransitTime)
                    ELSE 1,
                  deliveryDate |->
                    IF Truthy(detail.commitDeliveryTimestamp)
                    THEN detail.commitDeliveryTimestamp
                    ELSE IF Truthy(detail.operationalDeliveryDate)
                    THEN detail.operationalDeliveryDate
                    ELSE Null] >>

RECURSIVE parseDetails(_)
parseDetails(details) ==
  IF details = <<>> THEN <<>> ELSE parseDetail(Head(details)) \o parseDetails(Tail(details))

\* response.output is <<>> when output or rateReplyDetails is missing, else
\* <<rateReplyDetails>>; isInternational is not read by the code
parseFedExRateResponse(response, isInternational) ==
  IF response.output = <<>> THEN <<>> ELSE parseDetails(response.output[1])

(***************************************************************************)
(* handlers/rates.ts.                                                      *)
(***************************************************************************)
DEFAULT_HANDLING_FEES == [ground_per_order |-> 30, air_per_order |-> 125]
DEFAULT_PRIORITY_FEE_CENTS == 3000

\* a KV value is <<>> when the key is absent or its text does not parse, else
\* <<the parsed value>>
loadKVConfig(kv) ==
  [localDeliveryZips |-> IF kv.localDeliveryZips = <<>> THEN {} ELSE kv.localDeliveryZips[1],
   boxConfigs |-> IF kv.boxSizes = <<>> THEN DEFAULT_BOX_CONFIGS ELSE kv.boxSizes[1],
   handlingFees |-> IF kv.handlingFees = <<>> THEN DEFAULT_HANDLING_FEES
                    ELSE kv.handlingFees[1],
   leadTimes |-> IF kv.leadTimes = <<>> THEN DEFAULT_LEAD_TIMES ELSE kv.leadTimes[1],
   priorityFeeCents |-> IF kv.priorityFee = <<>> THEN DEFAULT_PRIORITY_FEE_CENTS
                        ELSE kv.priorityFee[1]]

RECURSIVE NumberToString(_)
\* Number.prototype.toString of an integer: its decimal digits
NumberToString(n) ==
  IF n < 0 THEN <<"-">> \o NumberToString(0 - n)
  ELSE IF n < 10 THEN <<Digits[n + 1]>>
  ELSE NumberToString(n \div 10) \o <<Digits[(n % 10) + 1]>>

buildLocalDeliveryRate(now) ==
  LET tomorrow == addBusinessDays(now, 1)
      deliveryDateISO == formatDateISO(tomorrow)
  IN [service_name |-> "Local Delivery",
      service_code |-> "LOCAL_DELIVERY",
      total_price |-> <<"0">>,
      description |-> "Free local delivery to Miami-Dade and Broward County",
      currency |-> "USD",
      min_delivery_date |-> deliveryDateISO,
      max_delivery_date |-> deliveryDateISO]

buildFreightForwardingRateWrong(now1, now2) ==
  [service_name |-> "International Freight Forwarding",
   service_code |-> "FREIGHT_FORWARDING",
   total_price |-> <<"0">>,
   description |->
     "Our team will contact you to confirm freight details and final shipping cost",
   currency |-> "USD",
   min_delivery_date |-> formatDateISO(addBusinessDays(now1, 14)),
   max_delivery_date |-> formatDateISO(addBusinessDays(now2, 14))]

\* new Date() is read once for each of the two dates
buildFreightForwardingRate(now1, now2) ==
  LET minDate == addBusinessDays(now1, 14)
      maxDate == addBusinessDays(now2, 21)
  IN [service_name |-> "International Freight Forwarding",
      service_code |-> "FREIGHT_FORWARDING",
      total_price |-> <<"0">>,
      description |->
        "Our team will contact you to confirm freight details and final shipping cost",
      currency |-> "USD",
      min_delivery_date |-> formatDateISO(minDate),
      max_delivery_date |-> formatDateISO(maxDate)]

standardPriceCentsWrong(fedExRate, kvConfig) ==
  fedExRate.totalChargeCents
    + (IF isGroundService(fedExRate.serviceType)
       THEN kvConfig.handlingFees.ground_per_order
       ELSE kvConfig.handlingFees.air_per_order)

\* totalPriceCents: the carrier charge plus the per-order handling fee
standardPriceCents(fedExRate, kvConfig) ==
  LET isGround == isGroundService(fedExRate.serviceType)
      handlingFee == IF isGround THEN kvConfig.handlingFees.ground_per_order * 100
                     ELSE kvConfig.handlingFees.air_per_order * 100
  IN fedExRate.totalChargeCents + handlingFee

\* the two offers pushed for one carrier rate; new Date() is read at
\* standardNow and priorityNow by the two calls of calculateDeliveryDates.
\* The em dash of the source's texts is written as a hyphen.
ratePairWrong(fedExRate, items, kvConfig, standardNow, priorityNow) ==
  LET totalPriceCents == standardPriceCents(fedExRate, kvConfig)
      priorityDates == calculateDeliveryDates(items, fedExRate.transitDays,
                                              kvConfig.leadTimes, TRUE, priorityNow)
  IN << [service_name |-> fedExRate.serviceName \o " - Priority Handling",
         service_code |-> fedExRate.serviceType \o "_PRIORITY",
         total_price |-> NumberToString(totalPriceCents + kvConfig.priorityFeeCents),
         description |->
           "Order moved to front of fulfillment queue - ships within 1 business day",
         currency |-> "USD",
         min_delivery_date |-> priorityDates.minDeliveryDateISO,
         max_delivery_date |-> priorityDates.maxDeliveryDateISO] >>

ratePair(fedExRate, items, kvConfig, standardNow, priorityNow) ==
  LET totalPriceCents == standardPriceCents(fedExRate, kvConfig)
      standardDates == calculateDeliveryDates(items, fedExRate.transitDays,
                                              kvConfig.leadTimes, FALSE, standardNow)
      priorityDates == calculateDeliveryDates(items, fedExRate.transitDays,
                                              kvConfig.leadTimes, TRUE, priorityNow)
      priorityTotalCents == totalPriceCents + kvConfig.priorityFeeCents
  IN << [service_name |-> fedExRate.serviceName,
         service_code |-> fedExRate.serviceType,
         total_price |-> NumberToString(totalPriceCents),
         description |-> Null,
         currency |-> "USD",
         min_delivery_date |-> standardDates.minDeliveryDateISO,
         max_delivery_date |-> standardDates.maxDeliveryDateISO],
        [service_name |-> fedExRate.serviceName \o " - Priority Handling",
         service_code |-> fedExRate.serviceType \o "_PRIORITY",
         total_price |-> NumberToString(priorityTotalCents),
         description |->
           "Order moved to front of fulfillment queue - ships within 1 business day",
         currency |-> "USD",
         min_delivery_date |-> priorityDates.minDeliveryDateISO,
         max_delivery_date |-> priorityDates.maxDeliveryDateISO] >>

RECURSIVE fedExRatesToShopifyRates(_, _, _, _)
\* reads: the times new Date() returns, two for each carrier rate, in order;
\* isInternational is not read by the code
fedExRatesToShopifyRates(fedExRates, req, kvConfig, reads) ==
  IF fedExRates = <<>> THEN <<>>
  ELSE ratePair(Head(fedExRates), req.items, kvConfig, reads[1], reads[2])
         \o fedExRatesToShopifyRates(Tail(fedExRates), req, kvConfig,
                                     SubSeq(reads, 3, Len(reads)))

TEST_SKU == "TEST-SHIPPING"

\* item.sku?.toUpperCase() on the SKUs drawn
skuToUpperCase(sku) == IF sku = "test-shipping" THEN "TEST-SHIPPING" ELSE sku

hasTestTrigger(items) ==
  \E i \in 1..Len(items) :
    \/ (items[i].sku # Null /\ skuToUpperCase(items[i].sku) = TEST_SKU)
    \/ items[i].test_mode = "true"

TestRate(name, code, price, date) ==
  [service_name |-> name, service_code |-> code, total_price |-> price,
   description |-> "Test rate - not a real quote", currency |-> "USD",
   min_delivery_date |-> formatDateISO(date), max_delivery_date |-> formatDateISO(date)]

buildTestRates(today) ==
  << TestRate("FedEx Ground (TEST)", "FEDEX_GROUND_TEST", <<"5","5","0","0">>,
              addBusinessDays(today, 5)),
     TestRate("FedEx 2Day (TEST)", "FEDEX_2_DAY_TEST", <<"1","7","0","0","0">>,
              addBusinessDays(today, 2)),
     TestRate("FedEx Priority Overnight (TEST)", "PRIORITY_OVERNIGHT_TEST",
              <<"2","1","0","0","0">>, addBusinessDays(today, 1)) >>

\* c.json(body, status)
Json(body, status) == [status |-> status, body |-> body]
Rates(rates) == [rates |-> rates]
Failure(message) == [error |-> message]

synthesizedRatesWrong(routeType, now1, now2) ==
  IF routeType = "local_delivery" THEN <<buildLocalDeliveryRate(now1)>> ELSE <<>>

\* the offers of the routes answered without packing or carrier: <<>> on the
\* other routes, where the handler goes on
synthesizedRates(routeType, now1, now2) ==
  IF routeType = "local_delivery" THEN <<buildLocalDeliveryRate(now1)>>
  ELSE IF routeType = "freight_forwarding" THEN <<buildFreightForwardingRate(now1, now2)>>
  ELSE <<>>

(***************************************************************************)
(* middleware/hmac.ts and index.ts.  A byte is a number in 0..255, a text  *)
(* a sequence of one-character strings.                                    *)
(***************************************************************************)
Base64Alphabet ==
  <<"A","B","C","D","E","F","G","H","I","J","K","L","M","N","O","P",
    "Q","R","S","T","U","V","W","X","Y","Z","a","b","c","d","e","f",
    "g","h","i","j","k","l","m","n","o","p","q","r","s","t","u","v",
    "w","x","y","z","0","1","2","3","4","5","6","7","8","9","+","/">>

InBase64Alphabet(ch) == \E i \in 1..64 : Base64Alphabet[i] = ch
Base64Index(ch) == (CHOOSE i \in 1..64 : Base64Alphabet[i] = ch) - 1

\* ASCII whitespace, as far as the texts drawn contain it
NotAsciiWhitespace(ch) == ch \notin {" ", "\t", "\n", "\r"}

\* atob, step 2: one or two trailing "=" of a text whose length divides by 4
stripPadding(text) ==
  LET n == Len(text)
  IN IF n > 0 /\ n % 4 = 0 /\ text[n] = "="
     THEN IF text[n - 1] = "=" THEN SubSeq(text, 1, n - 2) ELSE SubSeq(text, 1, n - 1)
     ELSE text

RECURSIVE decodeBase64(_)
\* atob, step 5: 6 bits a character; 12 left-over bits give one byte and 18
\* give two, the last bits being dropped
decodeBase64(data) ==
  IF Len(data) >= 4
  THEN LET n == Base64Index(data[1]) * 262144 + Base64Index(data[2]) * 4096
                  + Base64Index(data[3]) * 64 + Base64Index(data[4])
       IN <<n \div 65536, (n \div 256) % 256, n % 256>>
            \o decodeBase64(SubSeq(data, 5, Len(data)))
  ELSE IF Len(data) = 3
  THEN LET n == (Base64Index(data[1]) * 4096 + Base64Index(data[2]) * 64
                   + Base64Index(data[3])) \div 4
       IN <<n \div 256, n % 256>>
  ELSE IF Len(data) = 2
  THEN <<(Base64Index(data[1]) * 64 + Base64Index(data[2])) \div 16>>
  ELSE <<>>

\* atob: the bytes (char codes) of the decoded text, or the exception thrown
atob(text) ==
  LET data == stripPadding(SelectSeq(text, NotAsciiWhitespace))
  IN IF Len(data) % 4 = 1 \/ \E i \in 1..Len(data) : ~InBase64Alphabet(data[i])
     THEN Thrown("InvalidCharacterError")
     ELSE Returned(decodeBase64(data))

HexDigits == <<"0","1","2","3","4","5","6","7","8","9","a","b","c","d","e","f">>

\* b.toString(16).padStart(2, '0')
byteToHex(b) == <<HexDigits[(b \div 16) + 1], HexDigits[(b % 16) + 1]>>

RECURSIVE bytesToHex(_)
bytesToHex(bytes) ==
  IF bytes = <<>> THEN <<>> ELSE byteToHex(Head(bytes)) \o bytesToHex(Tail(bytes))

\* crypto.subtle.sign('HMAC', key, messageData): a digest, of two bytes here,
\* that differs from one message drawn to the next
HmacSha256(message, secret) ==
  IF message = "{}" THEN <<0, 16>> ELSE <<0, 32>>

computeHmacSha256(message, secret) == bytesToHex(HmacSha256(message, secret))

\* result |= a.charCodeAt(i) ^ b.charCodeAt(i) leaves 0 when no character differs
timingSafeEqual(a, b) ==
  IF Len(a) # Len(b) THEN FALSE ELSE \A i \in 1..Len(a) : a[i] = b[i]

\* verifyShopifyHmac: "missing" and "invalid" are its two 401 answers, "next"
\* the call of the handler, "threw" an exception that leaves the middleware.
\* header is <<>> when the request has none, else <<its text>>.
verifyShopifyHmac(header, body, secret) ==
  IF header = <<>> \/ header[1] = <<>> THEN "missing"
  ELSE LET computedHmac == computeHmacSha256(body, secret)
           decodedShopifyHmac == atob(header[1])
       IN IF decodedShopifyHmac.threw # Null THEN "threw"
          ELSE IF ~timingSafeEqual(computedHmac, bytesToHex(decodedShopifyHmac.value))
          THEN "invalid"
          ELSE "next"

(***************************************************************************)
(* Inputs.                                                                 *)
(***************************************************************************)
\* all sequences over S of length 0..n
RECURSIVE SeqsUpTo(_, _)
SeqsUpTo(S, n) ==
  IF n = 0 THEN {<<>>}
  ELSE LET shorter == SeqsUpTo(S, n - 1)
       IN shorter \cup {Append(s, x) : s \in {t \in shorter : Len(t) = n - 1}, x \in S}

\* a cart line item; a dimension property (_length, _width, _height) is <<>>
\* when absent or not starting with a number, <<n>> when its text starts with n
Item(grams, quantity, shippable, customerType, sku, l, w, h) ==
  [grams |-> grams, quantity |-> quantity, requires_shipping |-> shippable,
   customer_type |-> customerType, sku |-> sku, length |-> l, width |-> w, height |-> h,
   test_mode |-> Null]

NoRoute == [routeType |-> "none", customerType |-> "none", isInternational |-> FALSE]

Idle == <<>>

NoToken == [accessToken |-> Null, expiresAt |-> 0]

(***************************************************************************)
(* Specification SpecZip: postal-code normalization on every short string  *)
(* over digits, a dash and whitespace.                                     *)
(***************************************************************************)
ZipChars == {"3", "7", "-", " "}
LocalZip == <<"3", "3", "3", "7", "7">>

InitZip ==
  /\ pc = "zip"
  /\ request \in [postal_code : SeqsUpTo(ZipChars, MaxPostalLen)]
  /\ config = [localDeliveryZips |-> {LocalZip}]
  /\ route = NoRoute
  /\ packableItems = <<>>
  /\ packedBoxes = <<>>
  /\ output = Idle
  /\ events = <<>>
  /\ clock = 0
  /\ tokenCache = NoToken
  /\ parsedRates = <<>>

\* normalize the postal code as isLocalDeliveryZip does
Normalize ==
  /\ pc = "zip"
  /\ pc' = "zip1"
  /\ output' = [once |-> normalizeZip(request.postal_code),
                isLocal |-> isLocalDeliveryZip(request.postal_code, config.localDeliveryZips)]
  /\ UNCHANGED <<request, config, route, packableItems, packedBoxes, events, clock, tokenCache, parsedRates>>

\* feed the normalized code back in
NormalizeAgain ==
  /\ pc = "zip1"
  /\ pc' = "zip2"
  /\ output' = [once |-> output.once, twice |-> normalizeZip(output.once),
                isLocal |-> output.isLocal]
  /\ UNCHANGED <<request, config, route, packableItems, packedBoxes, events, clock, tokenCache, parsedRates>>

NextZip == Normalize \/ NormalizeAgain

SpecZip == InitZip /\ [][NextZip]_vars

(***************************************************************************)
(* Specification SpecRoute: determineRoute on drawn destinations and carts.*)
(***************************************************************************)
Countries == {<<"U","S">>, <<"u","s">>, <<"U","s">>, <<"u","S">>, <<"C","A">>,
              <<"D","E">>, <<"U","S","A">>, <<>>}
RoutePostalCodes == {LocalZip, LocalZip \o <<"-","1","2","3","4">>,
                     <<" ">> \o LocalZip \o <<" ">>, <<"9","0","2","1","0">>,
                     <<"3","3","3","7">>, <<>>}
CustomerTypeValues == RecognizedCustomerTypes \cup {Null, "", "unknown_type"}
RouteItems == {Item(1000, 1, TRUE, ct, "TEST-SKU", <<>>, <<>>, <<>>) : ct \in CustomerTypeValues}

InitRoute ==
  /\ pc = "route"
  /\ request \in [country : Countries, postal_code : RoutePostalCodes,
                  items : SeqsUpTo(RouteItems, MaxCartLen)]
  /\ config \in [localDeliveryZips : {{}, {LocalZip, <<"3","3","1","0","1">>}}]
  /\ route = NoRoute
  /\ packableItems = <<>>
  /\ packedBoxes = <<>>
  /\ output = Idle
  /\ events = <<>>
  /\ clock = 0
  /\ tokenCache = NoToken
  /\ parsedRates = <<>>

Classify ==
  /\ pc = "route"
  /\ pc' = "routed"
  /\ route' = determineRoute(request, config.localDeliveryZips)
  /\ UNCHANGED <<request, config, packableItems, packedBoxes, output, events, clock, tokenCache, parsedRates>>

NextRoute == Classify

SpecRoute == InitRoute /\ [][NextRoute]_vars

(***************************************************************************)
(* Specification SpecPack: packItems, one placement at a time, on drawn    *)
(* carts and box catalogs.                                                 *)
(***************************************************************************)
\* a narrow, strong box: the largest capacity on the smallest footprint
DrumBox == Box("drum", 10, 10, 14, 90, 5)

Catalogs ==
  {<<>>, TEST_BOX_CONFIGS, DEFAULT_BOX_CONFIGS,
   <<TEST_BOX_CONFIGS[3], TEST_BOX_CONFIGS[1]>>,
   <<DrumBox, TEST_BOX_CONFIGS[2], TEST_BOX_CONFIGS[1]>>}

\* <<grams, _length, _width, _height>> of the line items drawn.  The unit
\* weights are 2000 g (4.4 lb), 9000 g (19.8 lb) and 45359 g (100 lb, more
\* than any box holds).  Two kinds have the same weight and floor area and
\* differ in height.
ItemKinds ==
  {<<g, <<>>, <<>>, <<>> >> : g \in {2000, 9000, 45359}}
  \cup {<<g, <<6>>, <<6>>, <<6>> >> : g \in {2000, 9000}}
  \cup {<<g, <<10>>, <<10>>, <<9>> >> : g \in {2000, 9000, 45359}}
  \cup {<<2000, <<10>>, <<10>>, <<12>> >>}
  \cup {<<2000, <<6>>, <<>>, <<0>> >>}

\* the kinds drawn where the shipping flag varies as well
CartKinds ==
  {<<2000, <<>>, <<>>, <<>> >>, <<9000, <<6>>, <<6>>, <<6>> >>,
   <<45359, <<>>, <<>>, <<>> >>}

MaxQuantity == 2

ItemsOf(kinds, shippableFlags) ==
  {Item(k[1], q, f, Null, "TEST-SKU", k[2], k[3], k[4]) :
     k \in kinds, q \in 1..MaxQuantity, f \in shippableFlags}

InitPack ==
  /\ pc = "pack"
  /\ request \in [items : SeqsUpTo(ItemsOf(ItemKinds, {TRUE}), MaxCartLen)]
  /\ config \in [boxConfigs : Catalogs]
  /\ route = NoRoute
  /\ packableItems = <<>>
  /\ packedBoxes = <<>>
  /\ output = Idle
  /\ events = <<>>
  /\ clock = 0
  /\ tokenCache = NoToken
  /\ parsedRates = <<>>

\* packItems up to the placement loop: the two early exits, the expansion
\* by quantity and the sort
PackBegin ==
  /\ pc = "pack"
  /\ IF packItemsEntry(request.items, config.boxConfigs) = "return"
     THEN /\ pc' = "packed"
          /\ output' = Returned(<<>>)
          /\ UNCHANGED packableItems
     ELSE IF packItemsEntry(request.items, config.boxConfigs) = "throw"
     THEN /\ pc' = "threw"
          /\ output' = Thrown(NoBoxConfigurations)
          /\ UNCHANGED packableItems
     ELSE /\ pc' = "placing"
          /\ packableItems' = sortPackableItems(ExpandItems(request.items))
          /\ UNCHANGED output
  /\ UNCHANGED <<request, config, route, packedBoxes, events, clock, tokenCache, parsedRates>>

\* one iteration of the loop over the sorted entries
PackPlace ==
  /\ pc = "placing"
  /\ packableItems # <<>>
  /\ packedBoxes' = placeItem(packedBoxes, Head(packableItems), config.boxConfigs)
  /\ packableItems' = Tail(packableItems)
  /\ UNCHANGED <<pc, request, config, route, output, events, clock, tokenCache, parsedRates>>

\* the loop has ended: return packedBoxes
PackReturn ==
  /\ pc = "placing"
  /\ packableItems = <<>>
  /\ pc' = "packed"
  /\ output' = Returned(packedBoxes)
  /\ UNCHANGED <<request, config, route, packableItems, packedBoxes, events, clock, tokenCache, parsedRates>>

NextPack == PackBegin \/ PackPlace \/ PackReturn

SpecPack == InitPack /\ [][NextPack]_vars

(***************************************************************************)
(* Specification SpecCart: getPackagesForCart and                          *)
(* calculateTotalCartWeightLbs on carts with and without non-shippable     *)
(* items; each is applied to the cart and to the cart with every           *)
(* non-shippable item removed.                                             *)
(***************************************************************************)
InitCart ==
  /\ pc = "cart"
  /\ request \in [items : SeqsUpTo(ItemsOf(CartKinds, BOOLEAN), MaxCartLen)]
  /\ config \in [boxConfigs : Catalogs]
  /\ route = NoRoute
  /\ packableItems = <<>>
  /\ packedBoxes = <<>>
  /\ output = Idle
  /\ events = <<>>
  /\ clock = 0
  /\ tokenCache = NoToken
  /\ parsedRates = <<>>

ShippableOnly(items) == SelectSeq(items, LAMBDA item : item.requires_shipping = TRUE)

GetPackages ==
  /\ pc = "cart"
  /\ pc' = "cartPackages"
  /\ output' = [cart |-> getPackagesForCart(request.items, config.boxConfigs),
                shippableOnly |->
                  getPackagesForCart(ShippableOnly(request.items), config.boxConfigs)]
  /\ UNCHANGED <<request, config, route, packableItems, packedBoxes, events, clock, tokenCache, parsedRates>>

TotalWeight ==
  /\ pc = "cart"
  /\ pc' = "cartWeight"
  /\ output' = [cart |-> calculateTotalCartWeightLbs(request.items),
                shippableOnly |->
                  calculateTotalCartWeightLbs(ShippableOnly(request.items))]
  /\ UNCHANGED <<request, config, route, packableItems, packedBoxes, events, clock, tokenCache, parsedRates>>

NextCart == GetPackages \/ TotalWeight

SpecCart == InitCart /\ [][NextCart]_vars

(***************************************************************************)
(* Specification SpecRates: handleRateRequest on one request, from its     *)
(* arrival to its response.  events records, in order, the calls of        *)
(* determineRoute ("route"), getPackagesForCart ("pack"),                  *)
(* getFedExAccessToken ("token"), the OAuth request ("oauth") and          *)
(* callFedExRateAPI ("rate").  Time may pass during the carrier's network  *)
(* calls and between two reads of new Date().                              *)
(***************************************************************************)
MaxReplyDetails == 2
TickSeconds == 30

Delays == {0, TickSeconds}

\* Thursday 23:59:45, Friday 23:59:45 and Sunday 12:00:00 UTC
StartInstants == {SecondsPerDay - 15, 2 * SecondsPerDay - 15, 3 * SecondsPerDay + 43200}

OtherZip == <<"9", "0", "2", "1", "0">>

RateItem(grams, quantity, shippable, customerType, sku) ==
  Item(grams, quantity, shippable, customerType, sku, <<>>, <<>>, <<>>)

RateCarts ==
  { <<>>,
    <<RateItem(2000, 1, TRUE, Null, "SKU-A")>>,
    <<RateItem(9000, 2, TRUE, "international_military", "LONG-LEAD")>>,
    <<RateItem(2000, 1, FALSE, Null, "SKU-A")>>,
    <<RateItem(2000, 1, FALSE, Null, "TEST-SHIPPING")>>,
    <<RateItem(2000, 1, TRUE, Null, "test-shipping")>>,
    <<[RateItem(2000, 1, TRUE, Null, Null) EXCEPT !.test_mode = "true"]>>,
    <<RateItem(2000, 0, TRUE, Null, "SKU-A")>>,
    <<RateItem(2000, 1, FALSE, "international_military", "LONG-LEAD"),
      RateItem(2000, 1, TRUE, Null, "SKU-A")>> }

KVStores ==
  { [localDeliveryZips |-> <<>>, boxSizes |-> <<>>, handlingFees |-> <<>>,
     leadTimes |-> <<>>, priorityFee |-> <<>>],
    [localDeliveryZips |-> <<{LocalZip}>>, boxSizes |-> <<TEST_BOX_CONFIGS>>,
     handlingFees |-> <<[ground_per_order |-> 5, air_per_order |-> 12]>>,
     leadTimes |-> <<("default" :> 2) @@ ("LONG-LEAD" :> 14)>>,
     priorityFee |-> <<1500>>],
    [localDeliveryZips |-> <<{LocalZip}>>, boxSizes |-> << <<>> >>,
     handlingFees |-> <<[ground_per_order |-> 0, air_per_order |-> 0]>>,
     leadTimes |-> <<>>, priorityFee |-> <<0>>] }

TokenCaches ==
  { NoToken,
    [accessToken |-> "cached", expiresAt |-> 0],
    [accessToken |-> "cached", expiresAt |-> 30 * SecondsPerDay] }

Requests ==
  [testQuery : BOOLEAN, bodyParses : BOOLEAN, kvAvailable : BOOLEAN,
   country : {<<"U","S">>, <<"C","A">>}, postal_code : {LocalZip, OtherZip},
   items : RateCarts, kv : KVStores]

Money(rateType, totalNetCharge, totalNetFedExCharge) ==
  [rateType |-> rateType, totalNetCharge |-> totalNetCharge,
   totalNetFedExCharge |-> totalNetFedExCharge]

\* commit.transitTime, commit.transitDays.minimumTransitTime and
\* operationalDetail.transitTime, then commit.deliveryTimestamp and
\* operationalDetail.deliveryDate
Detail(serviceType, ratedShipmentDetails, transit, minTransit, opTransit, stamp, opDate) ==
  [serviceType |-> serviceType, ratedShipmentDetails |-> ratedShipmentDetails,
   commitTransitTime |-> transit,
   commitMinimumTransitTime |-> minTransit,
   operationalTransitTime |-> opTransit,
   commitDeliveryTimestamp |-> stamp,
   operationalDeliveryDate |-> opDate]

ReplyDetails ==
  { Detail("FEDEX_GROUND",
           <<Money("PAYOR_LIST_PACKAGE", <<3000>>, <<>>),
             Money("PAYOR_ACCOUNT_PACKAGE", <<2550>>, <<>>)>>,
           <<"T","H","R","E","E","_","D","A","Y","S">>, <<>>, <<>>, Null, Null),
    Detail("FEDEX_2_DAY",
           <<Money("PAYOR_LIST_SHIPMENT", <<>>, <<4500>>)>>,
           <<>>, <<"2">>, <<>>, "2026-01-15T17:00:00", Null),
    Detail("INTERNATIONAL_PRIORITY",
           <<Money("PAYOR_ACCOUNT_SHIPMENT", <<9999>>, <<12000>>)>>,
           <<>>, <<>>, <<"1","2"," ","d","a","y","s">>, Null, "2026-01-20"),
    Detail("SMART_POST",
           <<Money("PAYOR_ACCOUNT_PACKAGE", <<900>>, <<>>)>>,
           <<"2">>, <<>>, <<>>, Null, Null),
    Detail("GROUND_HOME_DELIVERY",
           <<Money("PAYOR_LIST_PACKAGE", <<1875>>, <<>>)>>,
           <<>>, <<>>, <<>>, Null, Null),
    Detail("FEDEX_EXPRESS_SAVER", <<>>, <<>>, <<>>, <<>>, Null, Null),
    Detail("PRIORITY_OVERNIGHT",
           <<Money("PAYOR_ACCOUNT_PACKAGE", <<>>, <<>>)>>,
           <<>>, <<>>, <<>>, Null, Null) }

\* the outcomes of callFedExRateAPI: a rejection, or a response body, which
\* lists a service once
RateOutcomes ==
  {Thrown("FedEx Rate API failed"), Thrown("FedEx Rate API request timed out"),
   Returned([errors |-> <<"error">>, output |-> <<>>]),
   Returned([errors |-> <<>>, output |-> <<>>])}
  \cup {Returned([errors |-> <<>>, output |-> <<details>>]) :
          details \in {r \in SeqsUpTo(ReplyDetails, MaxReplyDetails) :
                         \A i, j \in 1..Len(r) : i # j => r[i] # r[j]}}

\* n reads of new Date() after a network call made at now, the first k of
\* them before the clock ticks: k = 0 when the tick passes during the call
DateReads(now, n, k) == [i \in 1..n |-> IF i <= k THEN now ELSE now + TickSeconds]

NoConfig == <<>>

InitRates ==
  /\ pc = "start"
  /\ request \in Requests
  /\ config = NoConfig
  /\ route = NoRoute
  /\ packableItems = <<>>
  /\ packedBoxes = <<>>
  /\ output = Idle
  /\ events = <<>>
  /\ clock \in StartInstants
  /\ tokenCache \in TokenCaches
  /\ parsedRates = <<>>

Respond(response) == pc' = "done" /\ output' = response

\* lines 289-316: the test switch, the body, the test trigger, the items
ReceiveRequest ==
  /\ pc = "start"
  /\ IF request.testQuery THEN Respond(Json(Rates(buildTestRates(clock)), 200))
     ELSE IF ~request.bodyParses THEN Respond(Json(Rates(<<>>), 200))
     ELSE IF hasTestTrigger(request.items)
     THEN Respond(Json(Rates(buildTestRates(clock)), 200))
     ELSE IF ~hasShippableItems(request.items) THEN Respond(Json(Rates(<<>>), 200))
     ELSE pc' = "config" /\ output' = output
  /\ UNCHANGED <<request, config, route, packableItems, packedBoxes, events, clock,
                 tokenCache, parsedRates>>

\* lines 318-324
LoadConfig ==
  /\ pc = "config"
  /\ IF request.kvAvailable
     THEN /\ pc' = "route" /\ config' = loadKVConfig(request.kv) /\ output' = output
          /\ events' = events
     ELSE /\ Respond(Json(Failure("Internal server error"), 500)) /\ config' = config
          /\ events' = Append(events, "config_failed")
  /\ UNCHANGED <<request, route, packableItems, packedBoxes, clock, tokenCache, parsedRates>>

\* lines 325-343
Route ==
  /\ pc = "route"
  /\ route' = determineRoute(request, config.localDeliveryZips)
  /\ events' = Append(events, "route")
  /\ \E d \in Delays :
       LET rates == synthesizedRates(route'.routeType, clock, clock + d)
       IN /\ clock' = IF route'.routeType = "freight_forwarding" THEN clock + d ELSE clock
          /\ IF rates # <<>> THEN Respond(Json(Rates(rates), 200))
             ELSE pc' = "pack" /\ output' = output
  /\ UNCHANGED <<request, config, packableItems, packedBoxes, tokenCache, parsedRates>>

\* lines 346-350, and the catch of lines 390-397
Pack ==
  /\ pc = "pack"
  /\ events' = Append(events, "pack")
  /\ LET packages == getPackagesForCart(request.items, config.boxConfigs)
     IN IF packages.threw # Null
        THEN /\ Respond(Json(Failure("Failed to retrieve shipping rates"), 500))
             /\ packedBoxes' = packedBoxes
        ELSE IF packages.value = <<>>
        THEN Respond(Json(Rates(<<>>), 200)) /\ packedBoxes' = packedBoxes
        ELSE pc' = "token" /\ packedBoxes' = packages.value /\ output' = output
  /\ UNCHANGED <<request, config, route, packableItems, clock, tokenCache, parsedRates>>

\* the lifetimes, in seconds, that the OAuth endpoint grants
ExpiresIn == {3600}

tokenIsFreshWrong(cache, now) == cache.accessToken # Null /\ cache.expiresAt >= now

\* tokenCache && tokenCache.expiresAt > now
tokenIsFresh(cache, now) == cache.accessToken # Null /\ cache.expiresAt > now

\* the entry cached for an OAuth answer, from the time read before the request
newTokenCache(now, data) ==
  [accessToken |-> data.access_token,
   expiresAt |-> now + (data.expires_in - FEDEX_TOKEN_EXPIRY_BUFFER_SECONDS)]

\* getFedExAccessToken (line 352): the cached token while it has not expired,
\* else the OAuth request, whose answer is cached from the time read before it
GetToken ==
  /\ pc = "token"
  /\ LET now == clock
     IN IF tokenIsFresh(tokenCache, now)
        THEN /\ pc' = "rate"
             /\ events' = Append(events, "token")
             /\ UNCHANGED <<output, clock, tokenCache>>
        ELSE /\ \E d \in Delays : clock' = clock + d
             /\ \/ /\ Respond(Json(Failure("Failed to retrieve shipping rates"), 500))
                   /\ tokenCache' = tokenCache
                   /\ events' = events \o <<"token", "oauth", "oauth_failed">>
                \/ \E expires_in \in ExpiresIn :
                     /\ events' = events \o <<"token", "oauth">>
                     /\ tokenCache' =
                          newTokenCache(now, [access_token |-> "fresh",
                                              expires_in |-> expires_in])
                     /\ pc' = "rate"
                     /\ output' = output
  /\ UNCHANGED <<request, config, route, packableItems, packedBoxes, parsedRates>>

\* what went wrong in an outcome of callFedExRateAPI, for the record in events
RateFailure(outcome) ==
  IF outcome.threw = "FedEx Rate API request timed out" THEN <<"rate_timeout">>
  ELSE IF outcome.threw # Null THEN <<"rate_failed">>
  ELSE IF outcome.value.errors # <<>> THEN <<"rate_errors">>
  ELSE <<>>

rateCallFailureWrong(outcome) ==
  IF outcome.threw # Null THEN <<"Failed to retrieve shipping rates">> ELSE <<>>

\* the error message answered for an outcome of callFedExRateAPI, <<>> when
\* the handler goes on: the catch of lines 390-397 and the test of line 365
rateCallFailure(outcome) ==
  IF outcome.threw # Null THEN <<"Failed to retrieve shipping rates">>
  ELSE IF outcome.value.errors # <<>> THEN <<"FedEx API error">>
  ELSE <<>>

\* lines 354-389, and the catch of lines 390-397
CallRateAPI ==
  /\ pc = "rate"
  /\ \E fedExResponse \in RateOutcomes :
     /\ events' = events \o <<"rate">> \o RateFailure(fedExResponse)
     /\ IF rateCallFailure(fedExResponse) # <<>>
        THEN /\ Respond(Json(Failure(rateCallFailure(fedExResponse)[1]), 500))
             /\ parsedRates' = parsedRates
             /\ \E d \in Delays : clock' = clock + d
        ELSE
         /\ parsedRates' = parseFedExRateResponse(fedExResponse.value, route.isInternational)
         /\ IF parsedRates' = <<>>
            THEN Respond(Json(Rates(<<>>), 200)) /\ \E d \in Delays : clock' = clock + d
            ELSE \E k \in 0..(2 * Len(parsedRates')) :
                   LET reads == DateReads(clock, 2 * Len(parsedRates'), k)
                   IN /\ Respond(Json(Rates(fedExRatesToShopifyRates(
                                     parsedRates', request, config, reads)), 200))
                      /\ clock' = reads[Len(reads)]
  /\ UNCHANGED <<request, config, route, packableItems, packedBoxes, tokenCache>>

NextRates == ReceiveRequest \/ LoadConfig \/ Route \/ Pack \/ GetToken \/ CallRateAPI

SpecRates == InitRates /\ [][NextRates]_vars

(***************************************************************************)
(* Specification SpecHmac: app.post('/rates', verifyShopifyHmac,           *)
(* handleRateRequest) on one request, up to the call of the handler.       *)
(***************************************************************************)
MaxHeaderLen == 4

HeaderChars == {"A", "B", "C", "=", "-", " "}

\* "{}" is signed "ABA=" and the other body "ACA="
Bodies == {"{}", "{\"rate\":{}}"}

InitHmac ==
  /\ pc = "hmac"
  /\ request \in [header : {<<>>} \cup {<<text>> : text \in SeqsUpTo(HeaderChars, MaxHeaderLen)},
                  body : Bodies, secret : {"shared secret"}]
  /\ config = NoConfig
  /\ route = NoRoute
  /\ packableItems = <<>>
  /\ packedBoxes = <<>>
  /\ output = Idle
  /\ events = <<>>
  /\ clock = 0
  /\ tokenCache = NoToken
  /\ parsedRates = <<>>

\* the middleware, and app.onError for what it throws
VerifyHmac ==
  /\ pc = "hmac"
  /\ LET verdict == verifyShopifyHmac(request.header, request.body, request.secret)
     IN CASE verdict = "missing" ->
               Respond(Json(Failure("Unauthorized: Missing HMAC signature"), 401))
          [] verdict = "invalid" ->
               Respond(Json(Failure("Unauthorized: Invalid HMAC signature"), 401))
          [] verdict = "threw" ->
               Respond(Json(Failure("Internal server error"), 500))
          [] OTHER -> pc' = "next" /\ output' = output
  /\ UNCHANGED <<request, config, route, packableItems, packedBoxes, events, clock,
                 tokenCache, parsedRates>>

\* await next(): handleRateRequest runs and answers
CallHandler ==
  /\ pc = "next"
  /\ events' = Append(events, "handleRateRequest")
  /\ \E answer \in {Json(Rates(<<>>), 200), Json(Failure("Internal server error"), 500)} :
       Respond(answer)
  /\ UNCHANGED <<request, config, route, packableItems, packedBoxes, clock, tokenCache,
                 parsedRates>>

NextHmac == VerifyHmac \/ CallHandler

SpecHmac == InitHmac /\ [][NextHmac]_vars

(***************************************************************************)
(* Specification SpecParse: parseFedExRateResponse on drawn responses.     *)
(***************************************************************************)
ParseDetails ==
  ReplyDetails \cup
  { Detail("STANDARD_OVERNIGHT",
           <<Money("PAYOR_ACCOUNT_PACKAGE", <<>>, <<>>),
             Money("PAYOR_LIST_PACKAGE", <<5200>>, <<>>)>>,
           <<>>, <<>>, <<>>, Null, Null),
    Detail("FEDEX_2_DAY_AM",
           <<Money("PREFERRED_ACCOUNT_PACKAGE", <<6100>>, <<>>)>>,
           <<>>, <<>>, <<>>, Null, Null),
    Detail("FIRST_OVERNIGHT",
           <<Money("PAYOR_LIST_SHIPMENT", <<8000>>, <<>>),
             Money("PAYOR_ACCOUNT_SHIPMENT", <<>>, <<7400>>),
             Money("PAYOR_ACCOUNT_PACKAGE", <<7000>>, <<>>)>>,
           <<>>, <<>>, <<>>, Null, Null) }

InitParse ==
  /\ pc = "parse"
  /\ request \in [response : [errors : {<<>>},
                              output : {<<>>} \cup
                                       {<<details>> :
                                          details \in SeqsUpTo(ParseDetails, MaxReplyDetails)}],
                  isInternational : BOOLEAN]
  /\ config = NoConfig
  /\ route = NoRoute
  /\ packableItems = <<>>
  /\ packedBoxes = <<>>
  /\ output = Idle
  /\ events = <<>>
  /\ clock = 0
  /\ tokenCache = NoToken
  /\ parsedRates = <<>>

Parse ==
  /\ pc = "parse"
  /\ pc' = "parsed"
  /\ parsedRates' = parseFedExRateResponse(request.response, request.isInternational)
  /\ UNCHANGED <<request, config, route, packableItems, packedBoxes, output, events, clock,
                 tokenCache>>

NextParse == Parse

SpecParse == InitParse /\ [][NextParse]_vars

(***************************************************************************)
(* Specification SpecLead: getMaxLeadTimeDays and getPriorityLeadTimeDays  *)
(* on drawn carts, lead-time tables and standard lead times.               *)
(***************************************************************************)
MaxLeadDays == 6

LeadSkus == {"LONG", "MED", "UNKNOWN"}

\* the tables over the keys default, LONG and MED, any of which may be absent
LeadTimeTables ==
  UNION {[keys -> {-1, 0, 1, 14}] : keys \in SUBSET {"default", "LONG", "MED"}}

InitLead ==
  /\ pc = "lead"
  /\ request \in [items : SeqsUpTo({RateItem(2000, 1, TRUE, Null, sku) : sku \in LeadSkus},
                                  MaxCartLen),
                  leadTimes : LeadTimeTables,
                  standardLeadTime : (-1)..MaxLeadDays]
  /\ config = NoConfig
  /\ route = NoRoute
  /\ packableItems = <<>>
  /\ packedBoxes = <<>>
  /\ output = Idle
  /\ events = <<>>
  /\ clock = 0
  /\ tokenCache = NoToken
  /\ parsedRates = <<>>

MaxLeadTime ==
  /\ pc = "lead"
  /\ pc' = "leadMax"
  /\ output' = [maxLeadTime |-> getMaxLeadTimeDays(request.items, request.leadTimes)]
  /\ UNCHANGED <<request, config, route, packableItems, packedBoxes, events, clock,
                 tokenCache, parsedRates>>

PriorityLeadTime ==
  /\ pc = "leadMax"
  /\ pc' = "leadPriority"
  /\ output' = [maxLeadTime |-> output.maxLeadTime,
                priorityLeadTime |-> getPriorityLeadTimeDays(request.standardLeadTime)]
  /\ UNCHANGED <<request, config, route, packableItems, packedBoxes, events, clock,
                 tokenCache, parsedRates>>

NextLead == MaxLeadTime \/ PriorityLeadTime

SpecLead == InitLead /\ [][NextLead]_vars

(***************************************************************************)
(* Specification SpecDays: addBusinessDays on drawn dates and counts.      *)
(***************************************************************************)
MaxStartDay == 13
MaxBusinessDays == 6

\* 00:00:00, 12:00:00 and 23:59:59 UTC
TimesOfDay == {0, 43200, SecondsPerDay - 1}

InitDays ==
  /\ pc = "days"
  /\ request \in [startDate : {day * SecondsPerDay + time :
                                 day \in 0..MaxStartDay, time \in TimesOfDay},
                  businessDays : 0..MaxBusinessDays]
  /\ config = NoConfig
  /\ route = NoRoute
  /\ packableItems = <<>>
  /\ packedBoxes = <<>>
  /\ output = Idle
  /\ events = <<>>
  /\ clock = 0
  /\ tokenCache = NoToken
  /\ parsedRates = <<>>

AddBusinessDays ==
  /\ pc = "days"
  /\ pc' = "daysAdded"
  /\ output' = [result |-> addBusinessDays(request.startDate, request.businessDays)]
  /\ UNCHANGED <<request, config, route, packableItems, packedBoxes, events, clock,
                 tokenCache, parsedRates>>

NextDays == AddBusinessDays

SpecDays == InitDays /\ [][NextDays]_vars

(***************************************************************************)
(* Specification SpecDates: calculateDeliveryDates on drawn carts,         *)
(* lead-time tables, transit times and dates.                              *)
(***************************************************************************)
MaxTransitDays == 3
MaxFromDay == 6

\* no table entry at all; a default only; a default of 0 or below; entries
\* for the SKUs with and without a default
DatesLeadTimeTables ==
  {<<>>, [default |-> 1], [default |-> 0], [default |-> -1, LONG |-> 0],
   [default |-> 1, LONG |-> 14, MED |-> 3], [LONG |-> 5]}

InitDates ==
  /\ pc = "dates"
  /\ request \in [items : SeqsUpTo({RateItem(2000, 1, TRUE, Null, sku) : sku \in LeadSkus},
                                  MaxCartLen),
                  transitDays : (-1)..MaxTransitDays,
                  leadTimes : DatesLeadTimeTables,
                  isPriority : BOOLEAN,
                  fromDate : {day * SecondsPerDay + time :
                                day \in 0..MaxFromDay, time \in {0, SecondsPerDay - 1}}]
  /\ config = NoConfig
  /\ route = NoRoute
  /\ packableItems = <<>>
  /\ packedBoxes = <<>>
  /\ output = Idle
  /\ events = <<>>
  /\ clock = 0
  /\ tokenCache = NoToken
  /\ parsedRates = <<>>

CalculateDeliveryDates ==
  /\ pc = "dates"
  /\ pc' = "datesDone"
  /\ output' = calculateDeliveryDates(request.items, request.transitDays,
                                       request.leadTimes, request.isPriority,
                                       request.fromDate)
  /\ UNCHANGED <<request, config, route, packableItems, packedBoxes, events, clock,
                 tokenCache, parsedRates>>

NextDates == CalculateDeliveryDates

SpecDates == InitDates /\ [][NextDates]_vars

(***************************************************************************)
(* Specification SpecShip: calculateShipDate, then calculateDeliveryDate   *)
(* on its result, on drawn dates, lead times and transit times.            *)
(***************************************************************************)
InitShip ==
  /\ pc = "ship"
  /\ request \in [fromDate : {day * SecondsPerDay + time :
                                day \in 0..MaxStartDay, time \in TimesOfDay},
                  leadTimeDays : (-1)..MaxLeadDays,
                  transitDays : (-1)..MaxTransitDays]
  /\ config = NoConfig
  /\ route = NoRoute
  /\ packableItems = <<>>
  /\ packedBoxes = <<>>
  /\ output = Idle
  /\ events = <<>>
  /\ clock = 0
  /\ tokenCache = NoToken
  /\ parsedRates = <<>>

CalculateShipDate ==
  /\ pc = "ship"
  /\ pc' = "shipDate"
  /\ output' = [shipDate |-> calculateShipDate(request.leadTimeDays, request.fromDate)]
  /\ UNCHANGED <<request, config, route, packableItems, packedBoxes, events, clock,
                 tokenCache, parsedRates>>

CalculateDeliveryDate ==
  /\ pc = "shipDate"
  /\ pc' = "deliveryDate"
  /\ output' = [shipDate |-> output.shipDate,
                deliveryDate |-> calculateDeliveryDate(output.shipDate, request.transitDays)]
  /\ UNCHANGED <<request, config, route, packableItems, packedBoxes, events, clock,
                 tokenCache, parsedRates>>

NextShip == CalculateShipDate \/ CalculateDeliveryDate

SpecShip == InitShip /\ [][NextShip]_vars

(***************************************************************************)
(* Specification SpecToken: concurrent calls of getFedExAccessToken on the *)
(* one tokenCache of the process.  A call runs without interruption up to  *)
(* its await of the OAuth request and again from the answer to its return; *)
(* other calls and the clock move in between.  Here pc, request and output *)
(* hold, for each call, its position, the time it read at its start and    *)
(* the token it returned.                                                  *)
(***************************************************************************)
MaxCalls == 3
MaxTicks == 3

Calls == 1..MaxCalls

\* lifetimes granted: shorter than the buffer, and one and three ticks longer
ShortExpiresIn == {30, 90, 150}

\* the access token issued for the request of a call: a text of its own
IssuedToken(call) == "token-" \o ToString(call)

\* the record kept of an OAuth answer: the token, the time the asking call had
\* read at its start and the lifetime granted.  The code keeps no such record
\* and nothing in the calls reads it.
Issue(call, started, expires_in) ==
  [token |-> IssuedToken(call), started |-> started, expires_in |-> expires_in]

InitToken ==
  /\ pc = [call \in Calls |-> "idle"]
  /\ request = [call \in Calls |-> 0]
  /\ output = [call \in Calls |-> Null]
  /\ tokenCache = NoToken
  /\ clock = 0
  /\ config = NoConfig
  /\ route = NoRoute
  /\ packableItems = <<>>
  /\ packedBoxes = <<>>
  /\ events = <<>>
  /\ parsedRates = <<>>

\* const now = Date.now(); the cached token is returned, or the OAuth
\* request is sent
StartCall(call) ==
  /\ pc[call] = "idle"
  /\ request' = [request EXCEPT ![call] = clock]
  /\ IF tokenIsFresh(tokenCache, clock)
     THEN /\ pc' = [pc EXCEPT ![call] = "cached"]
          /\ output' = [output EXCEPT ![call] = tokenCache.accessToken]
     ELSE /\ pc' = [pc EXCEPT ![call] = "fetch"]
          /\ output' = output
  /\ UNCHANGED <<tokenCache, clock, config, route, packableItems, packedBoxes, events,
                 parsedRates>>

\* the OAuth request is answered: the entry is cached and the token returned
FetchSucceeds(call) ==
  /\ pc[call] = "fetch"
  /\ \E expires_in \in ShortExpiresIn :
       LET now == request[call]
           data == [access_token |-> IssuedToken(call), expires_in |-> expires_in]
       IN /\ tokenCache' = newTokenCache(now, data)
          /\ output' = [output EXCEPT ![call] = data.access_token]
          /\ events' = Append(events, Issue(call, now, expires_in))
  /\ pc' = [pc EXCEPT ![call] = "fetched"]
  /\ UNCHANGED <<request, clock, config, route, packableItems, packedBoxes, parsedRates>>

\* !response.ok: the call throws
FetchFails(call) ==
  /\ pc[call] = "fetch"
  /\ pc' = [pc EXCEPT ![call] = "threw"]
  /\ UNCHANGED <<request, output, tokenCache, clock, config, route, packableItems,
                 packedBoxes, events, parsedRates>>

Tick ==
  /\ clock < MaxTicks * TickSeconds
  /\ clock' = clock + TickSeconds
  /\ UNCHANGED <<pc, request, output, tokenCache, config, route, packableItems,
                 packedBoxes, events, parsedRates>>

NextToken ==
  \/ \E call \in Calls : StartCall(call)
  \/ \E call \in Calls : FetchSucceeds(call)
  \/ \E call \in Calls : FetchFails(call)
  \/ Tick

SpecToken == InitToken /\ [][NextToken]_vars

(***************************************************************************)
(* Claims about route classification and postal-code normalization.        *)
(***************************************************************************)
RouteTypes == {"local_delivery", "domestic", "international_military", "freight_forwarding"}

\* the spellings of the home country code that differ from "US" by case only
CountryIsUS == request.country \in {<<"U","S">>, <<"u","s">>, <<"U","s">>, <<"u","S">>}

\* C1: determineRoute always returns one of the four route types, chosen in
\* fixed priority: local_delivery iff the country is US in any letter case and
\* the normalized postal code is a local zip; else domestic iff the country is
\* US; else international_military iff the derived customer type is
\* international_military; else freight_forwarding.  isInternational is true
\* exactly for the last two.
C1_RoutePriority ==
  pc = "routed" =>
    LET local == normalizeZip(request.postal_code) \in config.localDeliveryZips
        military == extractCustomerType(request.items) = "international_military"
    IN /\ route.routeType \in RouteTypes
       /\ route.customerType = extractCustomerType(request.items)
       /\ (route.routeType = "local_delivery") <=> (CountryIsUS /\ local)
       /\ (route.routeType = "domestic") <=> (CountryIsUS /\ ~local)
       /\ (route.routeType = "international_military") <=> (~CountryIsUS /\ military)
       /\ (route.routeType = "freight_forwarding") <=> (~CountryIsUS /\ ~military)
       /\ route.isInternational
            <=> route.routeType \in {"international_military", "freight_forwarding"}

\* a lower-case "us" with a ZIP+4 local postal code was routed to local delivery
C1_Witness ==
  /\ pc = "routed"
  /\ request.country = <<"u","s">>
  /\ Len(request.postal_code) > ZipPrefixLen
  /\ route.routeType = "local_delivery"

IsDigits(s) == \A i \in 1..Len(s) : s[i] \in {"0","1","2","3","4","5","6","7","8","9"}

\* a 5+4 formatted code: five digits, a dash, then digits
IsZipPlus4(s) ==
  /\ Len(s) > ZipPrefixLen
  /\ IsDigits(SubSeq(s, 1, ZipPrefixLen))
  /\ s[ZipPrefixLen + 1] = "-"
  /\ IsDigits(SubSeq(s, ZipPrefixLen + 2, Len(s)))

\* C7 (second half, which the code satisfies): a ZIP+4 code normalizes to the
\* same value as its 5-digit prefix.
C7_ZipPlus4Prefix ==
  (pc \in {"zip1", "zip2"} /\ IsZipPlus4(request.postal_code)) =>
    /\ output.once = SubSeq(request.postal_code, 1, ZipPrefixLen)
    /\ output.once = normalizeZip(SubSeq(request.postal_code, 1, ZipPrefixLen))

\* C7: postal-code normalization is idempotent for every postal code,
\* normalize(normalize(z)) = normalize(z), and a ZIP+4 code normalizes to the
\* same value as its 5-digit prefix.
C7_NormalizeIdempotent ==
  /\ pc = "zip2" => output.twice = output.once
  /\ C7_ZipPlus4Prefix

(***************************************************************************)
(* Claims about packItems.                                                 *)
(***************************************************************************)
RECURSIVE SumOver(_, _)
\* the sum of f[i] over the indices i in S
SumOver(f, S) ==
  IF S = {} THEN 0
  ELSE LET i == CHOOSE i \in S : TRUE IN f[i] + SumOver(f, S \ {i})

\* the total cart weight: unit weight times quantity, summed over the items
CartWeight ==
  SumOver([i \in 1..Len(request.items) |->
             request.items[i].grams * request.items[i].quantity * GRAMS_PER_LB_DEN],
          1..Len(request.items))

ReturnedBoxes == output.value

\* the stepwise run returns what packItems returns in one evaluation
PackStepsAgree ==
  pc \in {"packed", "threw"} => output = packItems(request.items, config.boxConfigs)

\* C2: for every non-empty cart and non-empty catalog, packItems returns at
\* least one box and the itemWeightLbs of the returned boxes add up to the
\* total cart weight.
C2_ConservationOfMass ==
  (pc \in {"packed", "threw"} /\ request.items # <<>> /\ config.boxConfigs # <<>>) =>
    /\ pc = "packed"
    /\ output.threw = Null
    /\ Len(ReturnedBoxes) >= 1
    /\ SumOver([i \in 1..Len(ReturnedBoxes) |-> ReturnedBoxes[i].itemWeightLbs],
               1..Len(ReturnedBoxes)) = CartWeight

\* a cart of several units was packed into more than one box, one of them
\* holding more than one unit
C2_Witness ==
  /\ pc = "packed"
  /\ Len(ReturnedBoxes) >= 2
  /\ \E i \in 1..Len(ReturnedBoxes) : Len(ReturnedBoxes[i].contents) >= 2

\* C3: with no items packItems returns an empty list whatever the catalog;
\* with items and an empty catalog it fails with 'No box configurations
\* available' and returns no boxes.
C3_EmptyInputs ==
  pc \in {"packed", "threw"} =>
    /\ request.items = <<>> => (pc = "packed" /\ output = Returned(<<>>))
    /\ (request.items # <<>> /\ config.boxConfigs = <<>>) =>
         (pc = "threw" /\ output.threw = "No box configurations available"
            /\ output.value = <<>>)

\* packItems failed on a non-empty cart with an empty catalog
C3_Witness ==
  /\ pc = "threw"
  /\ request.items # <<>>
  /\ config.boxConfigs = <<>>

\* the entry weighs more than the effective weight capacity of every catalog box
Overweight(entry) ==
  \A k \in 1..Len(config.boxConfigs) :
    entry.weightLbs * 100
      > (config.boxConfigs[k].maxWeightLbs - config.boxConfigs[k].emptyWeightLbs)
          * GRAMS_PER_LB_NUM * 90

LargestFootprint(box) ==
  \A k \in 1..Len(config.boxConfigs) :
    box.length * box.width >= config.boxConfigs[k].length * config.boxConfigs[k].width

UnitEntries == ExpandItems(request.items)

FitTogether(entries, S, box) ==
  /\ SumOver([e \in 1..Len(entries) |-> entries[e].weightLbs], S) * 100
       <= (box.maxWeightLbs - box.emptyWeightLbs) * GRAMS_PER_LB_NUM * 90
  /\ \A e \in S : entries[e].dimensions.hasValidDimensions
                    => entries[e].dimensions.height <= box.height
  /\ SumOver([e \in 1..Len(entries) |-> entries[e].floorArea], S) * 100
       <= box.length * box.width * 85

\* some assignment of all unit entries to at most n catalog boxes respects
\* the capacities
PackableInto(n) ==
  \E f \in [1..Len(UnitEntries) -> 1..n] :
    \A b \in 1..n :
      \E k \in 1..Len(config.boxConfigs) :
        FitTogether(UnitEntries, {e \in 1..Len(UnitEntries) : f[e] = b},
                    config.boxConfigs[k])

\* C5 as stated: packItems returns a minimal set of boxes: no assignment of
\* the same unit entries to catalog boxes that respects the effective weight
\* capacity, the effective floor area and the height limit uses fewer boxes.
C5_MinimalBoxes ==
  (pc = "packed" /\ Len(ReturnedBoxes) >= 2) => ~PackableInto(Len(ReturnedBoxes) - 1)

\* C5 as amended: packItems returns a first-fit packing, which need not be
\* minimal; of any two returned boxes, the contents of the later one do not
\* fit on top of the contents of the earlier one in the earlier one's box.
C5_FirstFitNoMerge ==
  pc = "packed" =>
    \A i, j \in 1..Len(ReturnedBoxes) :
      i < j =>
        LET both == ReturnedBoxes[i].contents \o ReturnedBoxes[j].contents
        IN ~FitTogether(both, 1..Len(both), ReturnedBoxes[i].box)

\* packItems returned more boxes than a capacity-respecting assignment needs
C5_Witness ==
  /\ pc = "packed"
  /\ Len(ReturnedBoxes) >= 2
  /\ PackableInto(Len(ReturnedBoxes) - 1)

(***************************************************************************)
(* Claims about non-shippable items.                                       *)
(***************************************************************************)
NoShippableItem == \A i \in 1..Len(request.items) : ~request.items[i].requires_shipping

\* C6 (the half the code satisfies): the packages of getPackagesForCart are
\* those of the cart without its non-shippable items, and a cart with no
\* shippable item yields no package.
C6_PackagesIgnoreNonShippable ==
  pc = "cartPackages" =>
    /\ output.cart = output.shippableOnly
    /\ NoShippableItem => output.cart = Returned(<<>>)

\* C6: an item with requires_shipping = false never contributes to packing or
\* to weight totals: getPackagesForCart and calculateTotalCartWeightLbs give
\* the same result as on the cart with every non-shippable item removed, and a
\* cart with no shippable item yields no package.
C6_NonShippableNeverCounts ==
  /\ C6_PackagesIgnoreNonShippable
  /\ pc = "cartWeight" => output.cart = output.shippableOnly

(***************************************************************************)
(* Claims about the rate handler and the offers it assembles.              *)
(***************************************************************************)
Called(event) == \E i \in 1..Len(events) : events[i] = event

Answered(status) == pc = "done" /\ output.status = status

\* the handler answered with the offers converted from the carrier's rates
AnsweredFromCarrier == Called("rate") /\ Answered(200)

\* C8: on the local_delivery and freight_forwarding routes the handler
\* answers HTTP 200 with exactly one offer, priced "0", and performs neither
\* packing nor the carrier token request nor the carrier rate request; on
\* every request the route decision precedes any packing or carrier call.
C8_ShortCircuit ==
  /\ route.routeType \in {"local_delivery", "freight_forwarding"} =>
       /\ Answered(200)
       /\ DOMAIN output.body = {"rates"}
       /\ Len(output.body.rates) = 1
       /\ output.body.rates[1].total_price = <<"0">>
       /\ \A i \in 1..Len(events) : events[i] \notin {"pack", "token", "oauth", "rate"}
  /\ \A i \in 1..Len(events) :
       events[i] \in {"pack", "token", "oauth", "rate"} =>
         \E j \in 1..(i - 1) : events[j] = "route"

\* a destination abroad for a customer who is not international military
C8_Witness ==
  /\ pc = "done"
  /\ route.routeType = "freight_forwarding"
  /\ output.body.rates[1].service_code = "FREIGHT_FORWARDING"
  /\ events = <<"route">>

\* C9: fedExRatesToShopifyRates emits exactly two offers for every carrier
\* rate, in input order: the standard offer with the carrier's service code,
\* immediately followed by the priority offer whose code is the service code
\* suffixed with '_PRIORITY'; the output is twice as long as the parsed rates.
C9_TwoOffersPerRate ==
  AnsweredFromCarrier =>
    /\ Len(output.body.rates) = 2 * Len(parsedRates)
    /\ \A i \in 1..Len(parsedRates) :
         /\ output.body.rates[2 * i - 1].service_code = parsedRates[i].serviceType
         /\ output.body.rates[2 * i].service_code
              = parsedRates[i].serviceType \o "_PRIORITY"
         /\ output.body.rates[2 * i].service_code
              # output.body.rates[2 * i - 1].service_code

\* two carrier rates, four offers
C9_Witness ==
  /\ AnsweredFromCarrier
  /\ Len(parsedRates) = 2
  /\ parsedRates[1].serviceType = "FEDEX_2_DAY"
  /\ parsedRates[2].serviceType = "FEDEX_GROUND"
  /\ output.body.rates[3].service_code = "FEDEX_GROUND"
  /\ output.body.rates[4].service_code = "FEDEX_GROUND_PRIORITY"

\* a decimal string: digits only, and no leading zero before another digit
IsDecimal(text) ==
  /\ text # <<>>
  /\ IsDigits(text)
  /\ Len(text) > 1 => text[1] # "0"

RECURSIVE DecimalValueFrom(_, _)
\* the number a decimal string denotes, read from the left
DecimalValueFrom(text, acc) ==
  IF text = <<>> THEN acc
  ELSE DecimalValueFrom(Tail(text), 10 * acc + DigitValue(Head(text)))

DecimalValue(text) == DecimalValueFrom(text, 0)

\* C10: for every carrier rate the standard offer's total_price is the
\* decimal string of (carrier charge in cents + 100 x ground_per_order) when
\* the service is FEDEX_GROUND or GROUND_HOME_DELIVERY and of (carrier charge
\* in cents + 100 x air_per_order) otherwise, and the priority offer's
\* total_price is the standard price plus the priority fee in cents.
C10_OfferPrices ==
  AnsweredFromCarrier =>
    \A i \in 1..Len(parsedRates) :
      2 * i <= Len(output.body.rates) =>
        LET standard == output.body.rates[2 * i - 1].total_price
            priority == output.body.rates[2 * i].total_price
            fee == IF parsedRates[i].serviceType \in {"FEDEX_GROUND", "GROUND_HOME_DELIVERY"}
                   THEN config.handlingFees.ground_per_order
                   ELSE config.handlingFees.air_per_order
        IN /\ IsDecimal(standard)
           /\ DecimalValue(standard) = parsedRates[i].totalChargeCents + 100 * fee
           /\ IsDecimal(priority)
           /\ DecimalValue(priority) = DecimalValue(standard) + config.priorityFeeCents

\* a ground rate of 2550 cents under the default fees, then an air rate
C10_Witness ==
  /\ AnsweredFromCarrier
  /\ config.handlingFees = DEFAULT_HANDLING_FEES
  /\ config.priorityFeeCents = DEFAULT_PRIORITY_FEE_CENTS
  /\ Len(parsedRates) = 2
  /\ parsedRates[1].serviceType = "FEDEX_GROUND"
  /\ parsedRates[1].totalChargeCents = 2550
  /\ output.body.rates[1].total_price = <<"5", "5", "5", "0">>
  /\ output.body.rates[2].total_price = <<"8", "5", "5", "0">>
  /\ parsedRates[2].serviceType = "FEDEX_2_DAY"
  /\ output.body.rates[3].total_price = <<"1", "7", "0", "0", "0">>

\* the failures of the config store, the token request and the rate request
UpstreamFailures ==
  {"config_failed", "oauth_failed", "rate_failed", "rate_timeout", "rate_errors"}

UpstreamFailed == \E i \in 1..Len(events) : events[i] \in UpstreamFailures

TestMode == request.testQuery \/ (request.bodyParses /\ hasTestTrigger(request.items))

RECURSIVE base64Encode(_)
\* the base64 text of a byte sequence, with its padding
base64Encode(bytes) ==
  IF bytes = <<>> THEN <<>>
  ELSE IF Len(bytes) = 1
  THEN <<Base64Alphabet[(bytes[1] \div 4) + 1], Base64Alphabet[(bytes[1] % 4) * 16 + 1],
         "=", "=">>
  ELSE IF Len(bytes) = 2
  THEN <<Base64Alphabet[(bytes[1] \div 4) + 1],
         Base64Alphabet[(bytes[1] % 4) * 16 + (bytes[2] \div 16) + 1],
         Base64Alphabet[(bytes[2] % 16) * 4 + 1], "=">>
  ELSE <<Base64Alphabet[(bytes[1] \div 4) + 1],
         Base64Alphabet[(bytes[1] % 4) * 16 + (bytes[2] \div 16) + 1],
         Base64Alphabet[(bytes[2] % 16) * 4 + (bytes[3] \div 64) + 1],
         Base64Alphabet[(bytes[3] % 64) + 1]>>
         \o base64Encode(SubSeq(bytes, 4, Len(bytes)))

\* the header is the base64 HMAC-SHA256 of the raw body under the secret
SignatureVerifies ==
  /\ request.header # <<>>
  /\ request.header[1] = base64Encode(HmacSha256(request.body, request.secret))

\* the header decodes to the HMAC-SHA256 of the raw body under the secret
SignatureDecodesToHmac ==
  /\ request.header # <<>>
  /\ atob(request.header[1]) = Returned(HmacSha256(request.body, request.secret))

\* C13 (the half the code satisfies): a request without the header is
\* answered 401, and handleRateRequest runs only for a request whose header
\* decodes to the HMAC-SHA256 of its raw body.
C13_HandlerOnlyWhenDecoded ==
  /\ (pc # "hmac" /\ request.header = <<>>) => Answered(401)
  /\ Called("handleRateRequest") => SignatureDecodesToHmac
  /\ Answered(401) => ~Called("handleRateRequest")

\* C13: every request whose X-Shopify-Hmac-Sha256 header is missing, or is
\* not the base64 HMAC-SHA256 of the raw body under the shared secret, is
\* answered HTTP 401, and handleRateRequest runs only for requests whose
\* signature verified.
C13_BadSignature401 ==
  /\ (pc # "hmac" /\ ~SignatureVerifies) => Answered(401)
  /\ Called("handleRateRequest") => SignatureVerifies

(***************************************************************************)
(* Claims about the parsing of the carrier's response.                     *)
(***************************************************************************)
ReplyOf(response) == IF response.output = <<>> THEN <<>> ELSE response.output[1]

RateVariants(detail) ==
  {i \in 1..Len(detail.ratedShipmentDetails) :
     detail.ratedShipmentDetails[i].rateType \in
       {"PAYOR_ACCOUNT_PACKAGE", "PAYOR_ACCOUNT_SHIPMENT",
        "PAYOR_LIST_PACKAGE", "PAYOR_LIST_SHIPMENT"}}

AccountVariants(detail) ==
  {i \in RateVariants(detail) :
     detail.ratedShipmentDetails[i].rateType \in
       {"PAYOR_ACCOUNT_PACKAGE", "PAYOR_ACCOUNT_SHIPMENT"}}

\* the variant a rate is taken from: the first account variant, or the first
\* list variant when the detail has no account variant
PreferredVariant(detail) ==
  LET candidates == IF AccountVariants(detail) # {} THEN AccountVariants(detail)
                    ELSE RateVariants(detail)
  IN detail.ratedShipmentDetails[CHOOSE i \in candidates : \A j \in candidates : i <= j]

HasCharge(variant) == variant.totalNetCharge # <<>> \/ variant.totalNetFedExCharge # <<>>

ChargeCents(variant) ==
  IF variant.totalNetCharge # <<>> THEN variant.totalNetCharge[1]
  ELSE variant.totalNetFedExCharge[1]

\* an allowed service with a rate variant that carries a charge amount
Priced(detail) ==
  /\ detail.serviceType \in ALL_ALLOWED_SERVICES
  /\ RateVariants(detail) # {}
  /\ HasCharge(PreferredVariant(detail))

\* C14: parseFedExRateResponse returns, in response order, at most one rate
\* per reply detail: a detail of a service outside the allow-list is dropped,
\* a detail of an allowed service without a rate variant or without a charge
\* amount is skipped, and the other details keep their rates; a response
\* without rateReplyDetails yields the empty list.
C14_ParsedInResponseOrder ==
  pc = "parsed" =>
    LET priced == SelectSeq(ReplyOf(request.response), Priced)
    IN /\ Len(parsedRates) = Len(priced)
       /\ \A i \in 1..Len(priced) : parsedRates[i].serviceType = priced[i].serviceType
       /\ request.response.output = <<>> => parsedRates = <<>>

\* a service outside the allow-list, then a priced ground service
C14_Witness ==
  /\ pc = "parsed"
  /\ Len(ReplyOf(request.response)) = 2
  /\ ReplyOf(request.response)[1].serviceType = "SMART_POST"
  /\ ReplyOf(request.response)[2].serviceType = "GROUND_HOME_DELIVERY"
  /\ Len(parsedRates) = 1
  /\ parsedRates[1].serviceType = "GROUND_HOME_DELIVERY"
  /\ parsedRates[1].totalChargeCents = 1875

ListVariants(detail) == RateVariants(detail) \ AccountVariants(detail)

\* C15: for an allowed service whose reply carries both an account and a list
\* rate variant, the parsed rate's charge is the account variant's charge;
\* the list variant's charge is used only when no account variant is present.
C15_AccountPreferred ==
  pc = "parsed" =>
    LET priced == SelectSeq(ReplyOf(request.response), Priced)
    IN \A i \in 1..Len(parsedRates) :
         i <= Len(priced) =>
           LET variants == priced[i].ratedShipmentDetails
               first(S) == CHOOSE v \in S : \A w \in S : v <= w
           IN IF AccountVariants(priced[i]) # {}
              THEN parsedRates[i].totalChargeCents
                     = ChargeCents(variants[first(AccountVariants(priced[i]))])
              ELSE parsedRates[i].totalChargeCents
                     = ChargeCents(variants[first(ListVariants(priced[i]))])

\* a ground service quoted 3000 (list) and 2550 (account), in that order
C15_Witness ==
  /\ pc = "parsed"
  /\ Len(ReplyOf(request.response)) = 1
  /\ ReplyOf(request.response)[1].serviceType = "FEDEX_GROUND"
  /\ AccountVariants(ReplyOf(request.response)[1]) = {2}
  /\ ListVariants(ReplyOf(request.response)[1]) = {1}
  /\ Len(parsedRates) = 1
  /\ parsedRates[1].totalChargeCents = 2550

(***************************************************************************)
(* Claims about lead times and business days.                              *)
(***************************************************************************)
TableDefault == IF "default" \in DOMAIN request.leadTimes THEN request.leadTimes["default"] ELSE 1

\* the lead time of the i-th cart item: its SKU's entry, else the default
SkuLeadTime(i) ==
  IF request.items[i].sku \in DOMAIN request.leadTimes
  THEN request.leadTimes[request.items[i].sku]
  ELSE TableDefault

\* C16: getMaxLeadTimeDays returns the maximum over the cart items of the
\* item's SKU lead time, with the table's default for a SKU absent from the
\* table; the default for an empty cart; and when every per-item value is
\* zero or less a result that is not less than the default.
C16_MaxLeadTime ==
  pc = "leadMax" =>
    LET n == Len(request.items)
    IN /\ n = 0 => output.maxLeadTime = TableDefault
       /\ (\E i \in 1..n : SkuLeadTime(i) > 0) =>
            /\ \E i \in 1..n : output.maxLeadTime = SkuLeadTime(i)
            /\ \A i \in 1..n : output.maxLeadTime >= SkuLeadTime(i)
       /\ (n > 0 /\ \A i \in 1..n : SkuLeadTime(i) <= 0) =>
            output.maxLeadTime >= TableDefault

\* the table {default: 1, LONG: 14} and a cart of LONG and an unknown SKU
C16_Witness ==
  /\ pc = "leadMax"
  /\ DOMAIN request.leadTimes = {"default", "LONG"}
  /\ request.leadTimes["default"] = 1
  /\ request.leadTimes["LONG"] = 14
  /\ Len(request.items) = 2
  /\ request.items[1].sku = "LONG"
  /\ request.items[2].sku = "UNKNOWN"
  /\ output.maxLeadTime = 14

\* C17: getPriorityLeadTimeDays(n) is max(1, n - 2): never below 1, and
\* n - 2 whenever n >= 3.
C17_PriorityLeadTime ==
  pc = "leadPriority" =>
    /\ output.priorityLeadTime >= 1
    /\ request.standardLeadTime >= 3 =>
         output.priorityLeadTime = request.standardLeadTime - 2
    /\ request.standardLeadTime < 3 => output.priorityLeadTime = 1

\* standard lead time 5 gives 3
C17_Witness ==
  /\ pc = "leadPriority"
  /\ request.standardLeadTime = 5
  /\ output.priorityLeadTime = 3

\* the day of the week of a UTC day number: 0 is Sunday, day 0 a Thursday
Weekday(day) == (day + 4) % 7

BusinessDay(day) == Weekday(day) \in 1..5

\* the number of business days among the days from..to
BusinessDaysIn(from, to) == Cardinality({day \in from..to : BusinessDay(day)})

\* C18: addBusinessDays(d, 0) returns d unchanged, weekend or not; for n >= 1
\* addBusinessDays(d, n) advances one calendar day at a time, counting only
\* the days that are not Saturday or Sunday in UTC, until n are counted; from
\* a Saturday or Sunday it reaches the next Monday before any day is counted.
C18_AddBusinessDays ==
  pc = "daysAdded" =>
    LET d == request.startDate
        n == request.businessDays
        startDay == d \div SecondsPerDay
        resultDay == output.result \div SecondsPerDay
    IN /\ n = 0 => output.result = d
       /\ n >= 1 =>
            /\ output.result % SecondsPerDay = d % SecondsPerDay
            /\ resultDay > startDay
            /\ BusinessDay(resultDay)
            /\ BusinessDaysIn(startDay + 1, resultDay) = n
       /\ (n >= 1 /\ ~BusinessDay(startDay)) =>
            LET monday == CHOOSE day \in (startDay + 1)..(startDay + 2) : Weekday(day) = 1
            IN /\ resultDay >= monday
               /\ BusinessDaysIn(startDay + 1, monday - 1) = 0
               /\ BusinessDaysIn(monday, resultDay) = n

\* Saturday 10 January 1970 and one business day: Monday 12 January
C18_Witness ==
  /\ pc = "daysAdded"
  /\ request.startDate = 9 * SecondsPerDay + 43200
  /\ Weekday(9) = 6
  /\ request.businessDays = 1
  /\ output.result = 11 * SecondsPerDay + 43200

\* the n-th business day after a UTC day number
NthBusinessDayAfter(day, n) ==
  CHOOSE r \in (day + 1)..(day + 2 * n + 3) :
    BusinessDay(r) /\ BusinessDaysIn(day + 1, r) = n

\* the current date while the offer is built: the clock may have ticked over
\* midnight between the two reads of the freight-forwarding offer
CurrentDates == {(clock - TickSeconds) \div SecondsPerDay, clock \div SecondsPerDay}

OffersAnswered ==
  IF pc = "done" /\ "rates" \in DOMAIN output.body
  THEN {output.body.rates[i] : i \in 1..Len(output.body.rates)}
  ELSE {}

ContentsWeight(packedBox) ==
  SumOver([e \in 1..Len(packedBox.contents) |-> packedBox.contents[e].weightLbs],
          1..Len(packedBox.contents))

ContentsArea(packedBox) ==
  SumOver([e \in 1..Len(packedBox.contents) |-> packedBox.contents[e].floorArea],
          1..Len(packedBox.contents))

\* the test of the claim, in hundredths
PassesTest(entry, packedBox) ==
  /\ (ContentsWeight(packedBox) + entry.weightLbs) * 100
       <= 90 * (Lbs(packedBox.box.maxWeightLbs) - Lbs(packedBox.box.emptyWeightLbs))
  /\ entry.dimensions.hasValidDimensions =>
       /\ packedBox.box.height >= entry.dimensions.height
       /\ (ContentsArea(packedBox) + entry.floorArea) * 100
            <= 85 * packedBox.box.length * packedBox.box.width

AcceptsAlone(entry, box) ==
  /\ entry.weightLbs * 100 <= 90 * (Lbs(box.maxWeightLbs) - Lbs(box.emptyWeightLbs))
  /\ entry.dimensions.hasValidDimensions =>
       /\ entry.dimensions.height <= box.height
       /\ entry.floorArea * 100 <= 85 * box.length * box.width

Footprint(box) == box.length * box.width

CatalogBoxes == {config.boxConfigs[k] : k \in 1..Len(config.boxConfigs)}

C22_TareCountedOnce ==
  \A i \in 1..Len(packedBoxes) :
    /\ packedBoxes[i].totalWeightLbs =
         Lbs(packedBoxes[i].box.emptyWeightLbs) + packedBoxes[i].itemWeightLbs
    /\ packedBoxes[i].totalWeightLbs =
         Lbs(packedBoxes[i].box.emptyWeightLbs) + ContentsWeight(packedBoxes[i])

\* in the middle of the loop, a box of non-zero tare weight holds two entries
\* and a later box has been opened
C22_Witness ==
  /\ pc = "placing"
  /\ packableItems # <<>>
  /\ Len(packedBoxes) >= 2
  /\ Len(packedBoxes[1].contents) >= 2
  /\ packedBoxes[1].box.emptyWeightLbs > 0

(***************************************************************************)
(* Claims about extractCustomerType.                                       *)
(***************************************************************************)
\* the positions of the cart whose _customer_type is one of the three values
RecognizedPositions ==
  {i \in 1..Len(request.items) :
     request.items[i].customer_type \in
       {"international_military", "freight_forwarding", "fedex_own_account"}}

\* C23: extractCustomerType returns the _customer_type of the first item of
\* the cart whose value is international_military, freight_forwarding or
\* fedex_own_account; items with no value or another value are passed over;
\* the result is 'standard' when no item carries one of the three values.
C23_FirstRecognizedWins ==
  pc = "routed" =>
    route.customerType =
      IF RecognizedPositions = {} THEN "standard"
      ELSE request.items[CHOOSE i \in RecognizedPositions :
                           \A j \in RecognizedPositions : i <= j].customer_type

\* two items carry different recognized values and the first one was returned
C23_Witness ==
  /\ pc = "routed"
  /\ Cardinality(RecognizedPositions) >= 2
  /\ request.items[1].customer_type # request.items[2].customer_type
  /\ route.customerType = request.items[1].customer_type

(***************************************************************************)
(* Claims about calculateDeliveryDates.                                    *)
(***************************************************************************)
\* L: the cart's max lead time, or its priority reduction when isPriority
LeadTimeOfRequest ==
  LET standard == getMaxLeadTimeDays(request.items, request.leadTimes)
  IN IF request.isPriority THEN Max(1, standard - 2) ELSE standard

ShipDateOfRequest ==
  IF LeadTimeOfRequest <= 0 THEN getNextBusinessDay(request.fromDate)
  ELSE addBusinessDays(request.fromDate, LeadTimeOfRequest)

DeliveryDateOfRequest ==
  IF request.transitDays <= 0 THEN ShipDateOfRequest
  ELSE addBusinessDays(ShipDateOfRequest, request.transitDays)

\* C24: calculateDeliveryDates returns minDeliveryDateISO = maxDeliveryDateISO
\* = the date of deliveryDate(shipDate(L, from), transit): L is the cart's max
\* lead time (its priority reduction when isPriority), shipDate is
\* getNextBusinessDay(from) when L <= 0 and addBusinessDays(from, L)
\* otherwise, deliveryDate is the ship date when transit <= 0 and
\* addBusinessDays(shipDate, transit) otherwise.
C24_DeliveryDates ==
  pc = "datesDone" =>
    /\ output.shipDate = ShipDateOfRequest
    /\ output.deliveryDate = DeliveryDateOfRequest
    /\ output.minDeliveryDateISO = DeliveryDateOfRequest \div SecondsPerDay
    /\ output.maxDeliveryDateISO = output.minDeliveryDateISO

\* a priority request on Friday 2 January 1970 with lead time 14 and transit
\* 2: it ships 12 business days later, on Tuesday 20 January, and arrives on
\* Thursday 22 January
C24_Witness ==
  /\ pc = "datesDone"
  /\ request.isPriority
  /\ LeadTimeOfRequest = 12
  /\ request.fromDate \div SecondsPerDay = 1
  /\ request.transitDays = 2
  /\ output.minDeliveryDateISO = 21
  /\ output.maxDeliveryDateISO = 21

(***************************************************************************)
(* Claims about the carrier services offered on each route.                *)
(***************************************************************************)
ParsedServices == {parsedRates[i].serviceType : i \in 1..Len(parsedRates)}

\* C25: the carrier services offered are filtered by route: on a domestic
\* route the parsed rates contain only the domestic ground and domestic air
\* services, and on an international (military) route only
\* INTERNATIONAL_PRIORITY, INTERNATIONAL_ECONOMY and INTERNATIONAL_FIRST.
C25_ServicesFilteredByRoute ==
  /\ route.routeType = "domestic" =>
       ParsedServices \subseteq
         {"FEDEX_GROUND", "GROUND_HOME_DELIVERY", "FEDEX_2_DAY", "FEDEX_2_DAY_AM",
          "FEDEX_EXPRESS_SAVER", "STANDARD_OVERNIGHT", "PRIORITY_OVERNIGHT",
          "FIRST_OVERNIGHT"}
  /\ route.routeType = "international_military" =>
       ParsedServices \subseteq
         {"INTERNATIONAL_PRIORITY", "INTERNATIONAL_ECONOMY", "INTERNATIONAL_FIRST"}

\* what the parser does ensure on every route: one allow-list, the union of
\* the three groups
C25_ServicesInAllowList == ParsedServices \subseteq ALL_ALLOWED_SERVICES

C27_PriorityNotLater ==
  AnsweredFromCarrier =>
    \A i \in 1..Len(parsedRates) :
      /\ output.body.rates[2 * i].min_delivery_date
           <= output.body.rates[2 * i - 1].min_delivery_date
      /\ output.body.rates[2 * i].max_delivery_date
           <= output.body.rates[2 * i - 1].max_delivery_date

\* what holds when both offers are computed from one reading of the clock
C27_PriorityNotLaterFromOneInstant ==
  pc = "datesDone" =>
    calculateDeliveryDates(request.items, request.transitDays, request.leadTimes,
                           TRUE, request.fromDate).deliveryDate
      <= calculateDeliveryDates(request.items, request.transitDays, request.leadTimes,
                                FALSE, request.fromDate).deliveryDate

(***************************************************************************)
(* Claims about the order of the cart.                                     *)
(***************************************************************************)
BoxSummary(packedBox) ==
  <<packedBox.box, packedBox.itemWeightLbs, packedBox.usedFloorArea>>

\* the two lists of boxes are the same multiset of (box type, itemWeightLbs,
\* usedFloorArea)
SameBoxes(boxes, others) ==
  /\ Len(boxes) = Len(others)
  /\ \A i \in 1..Len(boxes) :
       Cardinality({j \in 1..Len(boxes) : BoxSummary(boxes[j]) = BoxSummary(boxes[i])})
         = Cardinality({j \in 1..Len(others) :
                          BoxSummary(others[j]) = BoxSummary(boxes[i])})

\* the carts that list the items of the request in another order
Reorderings ==
  LET n == Len(request.items)
  IN {[i \in 1..n |-> request.items[p[i]]] :
        p \in {q \in [1..n -> 1..n] : \A i, j \in 1..n : i # j => q[i] # q[j]}}

\* C28: packItems is insensitive to the order of the cart: for two carts that
\* are permutations of the same list of items, and the same catalog, the
\* returned boxes are the same multiset of (box type, itemWeightLbs,
\* usedFloorArea).
C28_OrderInsensitive ==
  pc = "packed" =>
    \A cart \in Reorderings :
      SameBoxes(ReturnedBoxes, packItems(cart, config.boxConfigs).value)

\* no two units of the cart have the same floor area and weight and
\* different heights
NoTieOfDifferentHeight ==
  \A i, j \in 1..Len(UnitEntries) :
    (UnitEntries[i].floorArea = UnitEntries[j].floorArea
       /\ UnitEntries[i].weightLbs = UnitEntries[j].weightLbs)
      => UnitEntries[i].dimensions.height = UnitEntries[j].dimensions.height

\* what holds: the order of the cart matters only through the units the sort
\* leaves in cart order
C28_OrderInsensitiveWithoutTies ==
  (pc = "packed" /\ NoTieOfDifferentHeight) =>
    \A cart \in Reorderings :
      SameBoxes(ReturnedBoxes, packItems(cart, config.boxConfigs).value)

(***************************************************************************)
(* Claims about ship dates and delivery dates.                             *)
(***************************************************************************)
\* C29: for every start date, lead time and transit time, the ship date of
\* calculateShipDate is a business day (not Saturday or Sunday in UTC)
\* strictly after the start date, and the delivery date calculateDeliveryDate
\* computes from it is a business day not earlier than the ship date.
C29_ShipAndDeliveryOnBusinessDays ==
  /\ pc \in {"shipDate", "deliveryDate"} =>
       /\ BusinessDay(output.shipDate \div SecondsPerDay)
       /\ output.shipDate > request.fromDate
       /\ output.shipDate \div SecondsPerDay > request.fromDate \div SecondsPerDay
  /\ pc = "deliveryDate" =>
       /\ BusinessDay(output.deliveryDate \div SecondsPerDay)
       /\ output.deliveryDate >= output.shipDate

\* from a Saturday with a lead time of 0 or below the ship date is the next
\* Monday, and with a transit time of 0 or below the delivery date is that day
C29_Witness ==
  /\ pc = "deliveryDate"
  /\ request.leadTimeDays <= 0
  /\ request.transitDays <= 0
  /\ Weekday(request.fromDate \div SecondsPerDay) = 6
  /\ Weekday(output.shipDate \div SecondsPerDay) = 1
  /\ output.deliveryDate = output.shipDate

(***************************************************************************)
(* Claims about the token cache under concurrent calls.                    *)
(***************************************************************************)
\* the time up to which a token issued may be served from the cache: the
\* time its fetch was started plus (expires_in - 60 seconds)
ServedUntil(issue) == issue.started + (issue.expires_in - 60)

IssueOf(token, issues) ==
  issues[CHOOSE i \in 1..Len(issues) : issues[i].token = token]

CacheEmptyOrExpired ==
  \/ tokenCache.accessToken = Null
  \/ clock >= ServedUntil(IssueOf(tokenCache.accessToken, events))

\* C30: under every interleaving of concurrent getFedExAccessToken calls on
\* the shared cache, a token is returned from the cache only while the
\* current time is before the time its fetch was started plus (expires_in -
\* 60 seconds); once the cached entry has reached that time the next call
\* requests a new token and replaces the cache entry; a failed token request
\* leaves the cache entry unchanged.
C30_TokenCache ==
  [][\A call \in Calls :
       /\ (pc[call] = "idle" /\ pc'[call] = "cached") =>
            /\ ~CacheEmptyOrExpired
            /\ output'[call] = tokenCache.accessToken
            /\ tokenCache' = tokenCache
       /\ (pc[call] = "idle" /\ pc'[call] # "idle" /\ CacheEmptyOrExpired) =>
            /\ pc'[call] = "fetch"
            /\ tokenCache' = tokenCache
       /\ (pc[call] = "fetch" /\ pc'[call] = "fetched") =>
            /\ output'[call] \notin {events[i].token : i \in 1..Len(events)}
            /\ IssueOf(output'[call], events').started = request[call]
            /\ tokenCache'.accessToken = output'[call]
            /\ tokenCache'.expiresAt = ServedUntil(IssueOf(output'[call], events'))
       /\ (pc[call] = "fetch" /\ pc'[call] = "threw") =>
            tokenCache' = tokenCache
    ]_vars

\* two calls fetched at once and the one that started first answered last, so
\* its token replaced the later one; a third call was then served that token
\* from the cache, and the entry has since expired
C30_Witness ==
  \E first, second, third \in Calls :
    /\ pc[first] = "fetched" /\ pc[second] = "fetched" /\ pc[third] = "cached"
    /\ request[first] < request[second]
    /\ request[second] < request[third]
    /\ tokenCache.accessToken = output[first]
    /\ output[third] = output[first]
    /\ clock >= tokenCache.expiresAt

====
